---- MODULE Spec2Model ----
(***************************************************************************)
(* Order lifecycle of OrderExecutor (src/trading_bot.py): place_order,     *)
(* verify_position_mode, calculate_limit_price, monitor_gtc_order and the  *)
(* TradeLogger ledger, against a nondeterministic exchange.                *)
(*                                                                         *)
(* Quantities are contracts (integers).  Prices are integers in units of   *)
(* 0.01 (cents); slippage is an integer percentage.                        *)
(***************************************************************************)
EXTENDS Integers, Sequences, FiniteSets, TLC

(* ------------------------------ bounds --------------------------------- *)
\* largest contract count a caller asks for
MaxContracts == 4
\* most network requests followed in one run of the program
MaxRequests == 14
\* the configured gtc_timeout_seconds explored
MaxTimeout == 6
\* the configured floor min_order_usd explored
MinOrderUsd == 2
\* largest holding (cold storage, futures equity) in units of 0.01 BTC
MaxBtc == 2
\* largest position size, in contracts, long or short
MaxQty == 2
\* most open positions in a snapshot
MaxPositions == 2
\* a new lifecycle is followed while fewer client ids than this were minted
MaxIssued == 2
\* most calls of calculate_metrics followed one after the other
MaxCalls == 3
\* most calls of the client followed one after the other
MaxClientCalls == 2

(* ------------------------- program constants --------------------------- *)
check_interval == 5
\* FETCH_INTERVAL's default and the seconds slept after a rebalance
FETCH_INTERVAL == 5
settle_seconds == 10

Symbols == {"XBTUSDM"}
Modes == {"ONE_WAY", "HEDGE_MODE"}
Leverages == {2}
Slippages == {-1, 0, 1}
\* exchange ticker payloads: bestBidPrice, bestAskPrice, price (0 = absent)
Tickers == { [bid |-> 0,      ask |-> 0,      price |-> 0],
             [bid |-> 0,      ask |-> 100100, price |-> 100000],
             [bid |-> 100000, ask |-> 0,      price |-> 0],
             [bid |-> 100000, ask |-> 100100, price |-> 100000] }

NoError == "<no error key>"
NoOrderId == [tag |-> "none", id |-> 0]
\* the order_details local of monitor_gtc_order before the first fetch
NoDetails == [kind |-> "none", status |-> "", dealSize |-> 0, size |-> 0]
NoResult == [success |-> FALSE, error |-> "<not returned>", order_id |-> NoOrderId,
             dry_run |-> FALSE, partially_filled |-> FALSE]

VARIABLES
    executor,     \* OrderExecutor's configuration fields (set by __init__)
    remote_mode,  \* the position mode held by the exchange
    orders,       \* the exchange's orders: orders[id] = [size, dealSize, status]
    pc,           \* where the (single-threaded) program is
    stack,        \* one frame per active or finished place_order invocation
    depth,        \* index in stack of the invocation now running
    elapsed,      \* time.time() - start_time of the running monitor_gtc_order
    net,          \* every network request sent, in order, with its response
    ledger,       \* rows appended to the trades CSV by TradeLogger.log_trade
    next_uuid,    \* uuid.uuid4() values handed out so far
    minted,       \* the client order ids given to order attempts, in order
    result,       \* what the outermost place_order returned
    raised,       \* an exception escaped place_order
    rebalance,    \* the call of OrderExecutor.execute_rebalance, if one was made
    snapshot,     \* the arguments of a PortfolioCalculator.calculate_metrics call
    metrics,      \* the dicts the calls of calculate_metrics returned, in order
    calls,        \* the arguments of those calls, in order
    bot           \* TradingBot's configuration and the locals of its run loop

vars == <<executor, remote_mode, orders, pc, stack, depth, elapsed, net,
          ledger, next_uuid, minted, result, raised, rebalance, snapshot,
          metrics, calls, bot>>

(* --------------------------- TradeLogger ------------------------------- *)
\* an optional CSV cell: <<>> is the empty cell
Cell(present, v) == IF present THEN <<v>> ELSE <<>>

\* f"{x:.1f}" of a price held in cents: cents rounded to a multiple of 10
Fmt1(p) == ((p + 5) \div 10) * 10

\* a row that always carries the configured slippage
Row_ConfiguredSlippage(action, symbol, contracts, limit_price, order_id, slippage, status, error) ==
    [action      |-> action,
     symbol      |-> symbol,
     contracts   |-> contracts,
     limit_price |-> IF limit_price # <<>> /\ limit_price[1] # 0
                     THEN <<Fmt1(limit_price[1])>> ELSE <<>>,
     filled_price |-> <<>>,
     order_id    |-> order_id,
     slippage    |-> <<executor.slippage_pct>>,
     status      |-> status,
     error       |-> error]

\* the row log_trade writes: limit_price and filled_price are written when
\* truthy (filled_price is never passed), slippage when it is not None
Row(action, symbol, contracts, limit_price, order_id, slippage, status, error) ==
    [action      |-> action,
     symbol      |-> symbol,
     contracts   |-> contracts,
     limit_price |-> IF limit_price # <<>> /\ limit_price[1] # 0
                     THEN <<Fmt1(limit_price[1])>> ELSE <<>>,
     filled_price |-> <<>>,
     order_id    |-> order_id,
     slippage    |-> slippage,
     status      |-> status,
     error       |-> error]

\* log_trade: nothing is written when the logger is disabled
log_trade(rows, row) ==
    IF ~executor.trade_logging_enabled THEN rows ELSE Append(rows, row)

(* ------------------------------ frames --------------------------------- *)
Frame(symbol, side, contracts, leverage, reduce_only) ==
    [symbol |-> symbol, side |-> side, contracts |-> contracts,
     leverage |-> leverage, reduce_only |-> reduce_only,
     client_oid |-> 0, order_type |-> "", time_in_force |-> "",
     limit_price |-> <<>>, order_id |-> NoOrderId,
     at_timeout |-> FALSE, order_details |-> NoDetails,
     cancel_success |-> FALSE,
     n_logged |-> 0, returned |-> FALSE, result |-> NoResult]

Top == stack[depth]

Abs(n) == IF n < 0 THEN -n ELSE n

(* ------------------------- exact arithmetic ---------------------------- *)
\* Python floats are followed as exact rationals num/den with den > 0
Q(num, den) == [num |-> num, den |-> den]

RECURSIVE Gcd(_, _)
Gcd(a, b) == IF b = 0 THEN a ELSE Gcd(b, a % b)

\* the same value in lowest terms: every result is kept so
Lowest(a) == LET g == Gcd(Abs(a.num), a.den) IN Q(a.num \div g, a.den \div g)

QAdd(a, b) == Lowest(Q(a.num * b.den + b.num * a.den, a.den * b.den))
QSub(a, b) == Lowest(Q(a.num * b.den - b.num * a.den, a.den * b.den))
QMul(a, b) == Lowest(Q(a.num * b.num, a.den * b.den))
\* a / b for b > 0
QDiv(a, b) == Lowest(Q(a.num * b.den, a.den * b.num))
QAbs(a) == Q(Abs(a.num), a.den)
QPositive(a) == a.num > 0
QGt(a, b) == a.num * b.den > b.num * a.den
\* a conversion that rounds up
QInt_RoundUp(a) == (a.num + a.den - 1) \div a.den

\* int(a) for a >= 0
QInt(a) == a.num \div a.den

(* -------------------- execute_rebalance's arguments -------------------- *)
Deviations == {-1, 0, 1}

\* the entries of a metrics dict that execute_rebalance reads
RebalanceMetrics ==
    { [needs_rebalancing |-> n,
       allocation_deviation |-> Q(d, 1),
       contracts_to_adjust |-> c,
       short_position_adjustment |-> Q(IF d > 0 THEN c ELSE -c, 1)] :
      n \in BOOLEAN, d \in Deviations, c \in 0 .. MaxContracts }

\* no call of execute_rebalance was made
NoRebalance ==
    [called |-> FALSE,
     metrics |-> [needs_rebalancing |-> FALSE, allocation_deviation |-> Q(0, 1),
                  contracts_to_adjust |-> 0, short_position_adjustment |-> Q(0, 1)],
     symbol |-> "", leverage |-> 0, returned |-> FALSE,
     result |-> [success |-> FALSE, action |-> "", contracts |-> <<>>,
                 usd_value |-> <<>>, order |-> NoResult]]

Fail(err) == [success |-> FALSE, error |-> err, order_id |-> NoOrderId,
              dry_run |-> FALSE, partially_filled |-> FALSE]

\* int(time.time() * 1000), read when headers are built: the clock is
\* followed in ticks since the log began, one passing with every request
Now == Len(net) + 1

\* base64(HMAC-SHA256(api_secret, timestamp + method + endpoint_path + body)):
\* followed as the parts of the string that was signed
_generate_signature(timestamp, method, endpoint_path, body) ==
    <<timestamp, method, endpoint_path, body>>

\* headers that carry the timestamp of the first request ever built
_get_headers_Stored(method, endpoint_path, body) ==
    [KC_API_SIGN |-> _generate_signature(1, method, endpoint_path, body),
     KC_API_TIMESTAMP |-> 1,
     KC_API_KEY_VERSION |-> "3"]

\* _get_headers: a timestamp read now and the signature over it
_get_headers(method, endpoint_path, body) ==
    LET timestamp == Now
    IN [KC_API_SIGN |-> _generate_signature(timestamp, method, endpoint_path, body),
        KC_API_TIMESTAMP |-> timestamp,
        KC_API_KEY_VERSION |-> "3"]

\* json.dumps(d): the text of the dict, followed by its content
JsonDumps(d) == <<"json", d>>

\* method, endpoint_path and body of each client call; arg is the symbol,
\* the order id, the order data, the body data or the endpoint variant
Endpoint(op, arg) ==
    CASE op = "get_ticker_price" ->
           [method |-> "GET", path |-> <<"/api/v1/ticker?symbol=", arg>>, body |-> ""]
      [] op = "get_best_bid_ask" ->
           [method |-> "GET", path |-> <<"/api/v1/ticker?symbol=", arg>>, body |-> ""]
      [] op = "get_futures_account" ->
           [method |-> "GET", path |-> <<"/api/v1/account-overview">> \o arg, body |-> ""]
      [] op = "get_positions" ->
           [method |-> "GET", path |-> <<"/api/v1/positions">> \o arg, body |-> ""]
      [] op = "get_position_mode" ->
           [method |-> "GET",
            path |-> <<"/api/v2/position/getPositionMode?symbol=", arg>>, body |-> ""]
      [] op = "set_position_mode" ->
           [method |-> "POST", path |-> <<"/api/v2/position/changePositionMode">>,
            body |-> JsonDumps(arg)]
      [] op = "get_order_details" ->
           [method |-> "GET", path |-> <<"/api/v1/orders/", arg>>, body |-> ""]
      [] op = "cancel_order" ->
           [method |-> "DELETE", path |-> <<"/api/v1/orders/", arg>>, body |-> ""]
      [] op = "create_order" ->
           [method |-> "POST", path |-> <<"/api/v1/orders">>, body |-> JsonDumps(arg)]

\* a request as it is sent and logged: who sent it, the client call and its
\* argument, method, path, body and headers, what the call returned and
\* (wire) the payload it was answered
Req(op, arg, resp) ==
    LET e == Endpoint(op, arg)
    IN [frame |-> depth, op |-> op, arg |-> arg, resp |-> resp, wire |-> <<>>,
        method |-> e.method, path |-> e.path, body |-> e.body,
        headers |-> _get_headers(e.method, e.path, e.body)]

\* "OPEN SHORT" if side.lower() == 'sell' and not reduce_only else "CLOSE SHORT",
\* then .replace(" ", "_")
Action(f) == IF f.side = "sell" /\ ~f.reduce_only THEN "OPEN_SHORT" ELSE "CLOSE_SHORT"

\* no call of calculate_metrics was made
NoSnapshot ==
    [cold_storage_btc |-> 0, futures_account |-> [accountEquity |-> 0],
     positions |-> <<>>, btc_price |-> 0, target_allocation |-> 0,
     rebalance_threshold |-> 0]

NoMetrics == <<>>

\* TradingBot.run was not started; the record holds the bot's configuration,
\* the locals of run (btc_price, account_data, positions, executed; its
\* counter iteration is never read and is not followed), the locals of the
\* client's fallback loop (attempt, last_error),
\* the client calls that returned (log) and the sleeps made (slept)
NoBot ==
    [auto_rebalance |-> FALSE, cold_storage_btc |-> 0, target_allocation |-> 0,
     rebalance_threshold |-> 0, fetch_interval |-> 0, running |-> FALSE,
     attempt |-> 0, last_error |-> <<>>,
     btc_price |-> 0, account_data |-> <<>>, positions |-> <<>>,
     log |-> <<>>, executed |-> FALSE, slept |-> <<>>]

(* ------------------------------- Init ---------------------------------- *)
Init ==
    /\ executor \in [dry_run : BOOLEAN,
                     max_order_usd : {MaxContracts - 1},
                     min_order_usd : {MinOrderUsd},
                     margin_mode : {"ISOLATED"},
                     position_mode : {"ONE_WAY"},
                     auto_set_position_mode : BOOLEAN,
                     order_type : {"market", "limit"},
                     time_in_force : {"IOC", "GTC", "FOK"},
                     slippage_pct : Slippages,
                     gtc_timeout_seconds : {MaxTimeout},
                     trade_logging_enabled : BOOLEAN]
    /\ remote_mode \in Modes
    /\ orders = <<>>
    /\ pc = "idle"
    /\ stack = <<>>
    /\ depth = 0
    /\ elapsed = 0
    /\ net = <<>>
    /\ ledger = <<>>
    /\ next_uuid = 0
    /\ minted = <<>>
    /\ result = NoResult
    /\ raised = FALSE
    /\ rebalance = NoRebalance
    /\ snapshot = NoSnapshot
    /\ metrics = NoMetrics
    /\ calls = <<>>
    /\ bot = NoBot

(* ------------------------- KuCoinFuturesClient ------------------------- *)
\* what the exchange can answer to GET getPositionMode: a transport/API
\* failure, the wire value of the mode it holds, or a value that is no mode
WireOf(mode) == IF mode = "ONE_WAY" THEN 0 ELSE 1

\* a JSON value on the wire, by its type; None stands for null
Json(type, v) == [type |-> type, v |-> v]

\* Python's w == n for a JSON value w and an int n: numbers compare by value
\* and True/False are the numbers 1/0
PyEq(w, n) == w.type \in {"int", "float", "bool"} /\ w.v = n

PositionModeResponses ==
    { [ok |-> FALSE, positionMode |-> <<>>],
      [ok |-> TRUE,  positionMode |-> <<Json("int", WireOf(remote_mode))>>],
      [ok |-> TRUE,  positionMode |-> <<>>] }

\* get_position_mode: '' on any failure or unknown wire value; the key
\* positionMode may be absent (<<>>), and then reads as -1
get_position_mode(resp) ==
    LET position_mode_int ==
            IF resp.positionMode = <<>> THEN Json("int", -1) ELSE resp.positionMode[1]
    IN IF ~resp.ok THEN ""
       ELSE IF PyEq(position_mode_int, 0) THEN "ONE_WAY"
       ELSE IF PyEq(position_mode_int, 1) THEN "HEDGE_MODE"
       ELSE ""

\* set_position_mode's conversion of the mode to the wire value: <<>> for a
\* mode it does not know (it returns False before any request)
ModeInt(position_mode) ==
    IF position_mode = "ONE_WAY" THEN <<0>>
    ELSE IF position_mode = "HEDGE_MODE" THEN <<1>>
    ELSE <<>>

\* what the exchange can answer to GET ticker: a failure (<<>>) or a payload
TickerResponses == {<<>>} \cup { <<t>> : t \in Tickers }

\* get_best_bid_ask: {} on failure; bid/ask fall back to the last price
get_best_bid_ask(resp) ==
    IF resp = <<>> THEN <<>>
    ELSE LET t == resp[1]
             fallback == (t.bid = 0 \/ t.ask = 0) /\ t.price > 0
         IN <<[best_bid |-> IF fallback /\ ~(t.bid > 0) THEN t.price ELSE t.bid,
               best_ask |-> IF fallback /\ ~(t.ask > 0) THEN t.price ELSE t.ask,
               last_price |-> t.price]>>

(* ---------------------------- OrderExecutor ---------------------------- *)
\* a pricing that takes the bid for a buy and the ask for a sell
calculate_limit_price_Swapped(ticker_data, side) ==
    IF ticker_data = <<>> THEN 0
    ELSE IF ticker_data[1].best_bid = 0 \/ ticker_data[1].best_ask = 0 THEN 0
    ELSE IF side = "buy"
         THEN (ticker_data[1].best_bid * (100 + executor.slippage_pct)) \div 100
         ELSE (ticker_data[1].best_ask * (100 - executor.slippage_pct)) \div 100

\* calculate_limit_price: 0 when no usable quote
calculate_limit_price(ticker_data, side) ==
    IF ticker_data = <<>> THEN 0
    ELSE IF ticker_data[1].best_bid = 0 \/ ticker_data[1].best_ask = 0 THEN 0
    ELSE IF side = "buy"
         THEN (ticker_data[1].best_ask * (100 + executor.slippage_pct)) \div 100
         ELSE (ticker_data[1].best_bid * (100 - executor.slippage_pct)) \div 100

\* round(limit_price, 1) of a price held in cents
Round1(p) == ((p + 5) \div 10) * 10

\* a size gate that forgets the floor
SafetyCheckError_NoMin(contracts) ==
    IF Abs(contracts) > executor.max_order_usd THEN <<"Order size exceeds maximum">>
    ELSE <<>>

\* a size gate that forgets the ceiling
SafetyCheckError_NoMax(contracts) ==
    IF Abs(contracts) < executor.min_order_usd THEN <<"Order size below minimum">>
    ELSE <<>>

\* the size gate at the head of place_order: <<>> passes, <<e>> rejects with e
SafetyCheckError(contracts) ==
    IF Abs(contracts) > executor.max_order_usd THEN <<"Order size exceeds maximum">>
    ELSE IF Abs(contracts) < executor.min_order_usd THEN <<"Order size below minimum">>
    ELSE <<>>

\* a place_order that sends the configured time-in-force as it is
EffectiveTif_Configured(order_type) == executor.time_in_force

\* a place_order that keeps the limit type when it has no price
OrderType_NoFallback(configured, limit_price) == configured

\* the order type place_order submits: a limit order whose price could not
\* be calculated falls back to a market order
OrderType(configured, limit_price) ==
    IF configured = "limit" /\ limit_price = 0 THEN "market" ELSE configured

\* a place_order that monitors whatever has time-in-force GTC
Monitored_AnyGtc(order_type, time_in_force) == time_in_force = "GTC"

\* whether place_order hands an accepted order to monitor_gtc_order
Monitored(order_type, time_in_force) ==
    order_type = "limit" /\ time_in_force = "GTC"

\* the time-in-force place_order decides on
EffectiveTif(order_type) ==
    IF order_type = "limit" /\ executor.slippage_pct < 0 THEN "GTC"
    ELSE executor.time_in_force

\* the order_data dict sent to POST /api/v1/orders
OrderData(f, client_oid, order_type, time_in_force, limit_price) ==
    LET priced == order_type = "limit" /\ limit_price # 0 IN
    [clientOid |-> client_oid, side |-> f.side, symbol |-> f.symbol,
     type |-> order_type, leverage |-> f.leverage, size |-> Abs(f.contracts),
     reduceOnly |-> f.reduce_only, marginMode |-> executor.margin_mode,
     price |-> Cell(priced, Round1(limit_price)),
     timeInForce |-> Cell(priced, time_in_force)]

\* a try block without its except clauses: the exception escapes
OnException_Propagate(e) == [raised |-> TRUE, result |-> NoResult]

\* the except clauses that close place_order's try block: the exception
\* becomes a failure value
OnException(e) == [raised |-> FALSE, result |-> Fail(e)]

\* a return statement of the running place_order (or of its monitor)
Returned(stk, r) ==
    [stk EXCEPT ![depth] = [@ EXCEPT !.returned = TRUE, !.result = r]]

Logged(stk, n) == [stk EXCEPT ![depth].n_logged = @ + n]

\* rows written by one log_trade call
Written(row) == Len(log_trade(ledger, row)) - Len(ledger)

(* ------------------------------ actions -------------------------------- *)
\* a call of place_order: a new invocation starts at the size gate
place_order(symbol, side, contracts, leverage, reduce_only) ==
    /\ stack' = Append(stack, Frame(symbol, side, contracts, leverage, reduce_only))
    /\ depth' = Len(stack) + 1
    /\ pc' = "safety"

open_short(symbol, contracts, leverage) ==
    place_order(symbol, "sell", contracts, leverage, FALSE)

close_short(symbol, contracts) ==
    place_order(symbol, "buy", contracts, 1, TRUE)

\* TradingBot.execute_rebalance calls the executor's open_short directly
CallOpenShort(symbol, contracts, leverage) ==
    /\ pc = "idle"
    /\ open_short(symbol, contracts, leverage)
    /\ UNCHANGED <<minted, rebalance, snapshot, metrics, calls, bot>>
    /\ UNCHANGED <<executor, remote_mode, orders, elapsed, net, ledger,
                   next_uuid, result, raised>>

\* ... and its close_short
CallCloseShort(symbol, contracts) ==
    /\ pc = "idle"
    /\ close_short(symbol, contracts)
    /\ UNCHANGED <<minted, rebalance, snapshot, metrics, calls, bot>>
    /\ UNCHANGED <<executor, remote_mode, orders, elapsed, net, ledger,
                   next_uuid, result, raised>>

\* a dispatch that trades whether or not the portfolio is balanced
Dispatch_IgnoreBalanced(m) ==
    IF QPositive(m.allocation_deviation) THEN "open_short" ELSE "close_short"

\* a dispatch with the sign convention reversed
Dispatch_Reversed(m) ==
    IF ~m.needs_rebalancing THEN "none"
    ELSE IF QPositive(m.allocation_deviation) THEN "close_short" ELSE "open_short"

\* execute_rebalance's choice of action
Dispatch(m) ==
    IF ~m.needs_rebalancing THEN "none"
    ELSE IF QPositive(m.allocation_deviation) THEN "open_short" ELSE "close_short"

\* OrderExecutor.execute_rebalance up to the call of open_short/close_short
execute_rebalance(m, symbol, leverage) ==
    /\ pc = "idle"
    /\ LET action == Dispatch(m)
           call == [called |-> TRUE, metrics |-> m, symbol |-> symbol,
                    leverage |-> leverage, returned |-> FALSE,
                    result |-> NoRebalance.result]
       IN IF action = "none"
          THEN /\ rebalance' = [call EXCEPT !.returned = TRUE,
                                            !.result.success = TRUE,
                                            !.result.action = "none"]
               /\ pc' = "done"
               /\ UNCHANGED <<stack, depth>>
          ELSE /\ rebalance' = call
               /\ IF action = "open_short"
                  THEN open_short(symbol, m.contracts_to_adjust, leverage)
                  ELSE close_short(symbol, m.contracts_to_adjust)
    /\ UNCHANGED <<minted, snapshot, metrics, calls, bot>>
    /\ UNCHANGED <<executor, remote_mode, orders, elapsed, net, ledger,
                   next_uuid, result, raised>>

\* a place_order that verifies the position mode in dry-run too
AfterSafety_AlwaysVerify(dry_run) == "verify_position_mode"

\* where place_order goes after the size gate: the position-mode check is
\* made only for real orders
AfterSafety(dry_run) == IF ~dry_run THEN "verify_position_mode" ELSE "prepare"

\* place_order, the size gate
SafetyCheck ==
    /\ pc = "safety"
    /\ LET rej == SafetyCheckError(Top.contracts) IN
       IF rej # <<>>
       THEN /\ stack' = Returned(stack, Fail(rej[1]))
            /\ pc' = "return"
       ELSE /\ stack' = stack
            /\ pc' = AfterSafety(executor.dry_run)
    /\ UNCHANGED <<minted, rebalance, snapshot, metrics, calls, bot>>
    /\ UNCHANGED <<executor, remote_mode, orders, depth, elapsed, net, ledger,
                   next_uuid, result, raised>>

\* a verification that lets a mismatch through when auto-set is disabled
VerifyDecision_NoAutoPasses(current_mode) ==
    IF current_mode = "" THEN "fail"
    ELSE IF current_mode = executor.position_mode THEN "ok"
    ELSE IF executor.auto_set_position_mode THEN "set"
    ELSE "ok"

\* what verify_position_mode does with the fetched mode:
\* "ok" (True), "set" (go on to set_position_mode), "fail" (False)
VerifyDecision(current_mode) ==
    IF current_mode = "" THEN "fail"
    ELSE IF current_mode = executor.position_mode THEN "ok"
    ELSE IF executor.auto_set_position_mode THEN "set"
    ELSE "fail"

\* verify_position_mode up to the comparison, and place_order's reaction
verify_position_mode ==
    /\ pc = "verify_position_mode"
    /\ Len(net) < MaxRequests
    /\ \E resp \in PositionModeResponses :
         LET current_mode == get_position_mode(resp)
             d == VerifyDecision(current_mode)
         IN /\ net' = Append(net, Req("get_position_mode", Top.symbol, current_mode))
            /\ IF d = "fail"
               THEN /\ stack' = Returned(stack, Fail("Position mode mismatch"))
                    /\ pc' = "return"
               ELSE /\ stack' = stack
                    /\ pc' = IF d = "ok" THEN "prepare" ELSE "set_position_mode"
    /\ UNCHANGED <<minted, rebalance, snapshot, metrics, calls, bot>>
    /\ UNCHANGED <<executor, remote_mode, orders, depth, elapsed, ledger,
                   next_uuid, result, raised>>

\* verify_position_mode, the auto-set branch: set_position_mode returns
\* False without a request for a mode it does not know
set_position_mode ==
    /\ pc = "set_position_mode"
    /\ LET position_mode_int == ModeInt(executor.position_mode)
       IN IF position_mode_int = <<>>
          THEN /\ UNCHANGED <<net, remote_mode>>
               /\ stack' = Returned(stack, Fail("Position mode mismatch"))
               /\ pc' = "return"
          ELSE /\ Len(net) < MaxRequests
               /\ \E success \in BOOLEAN :
                    /\ net' = Append(net, Req("set_position_mode",
                                   [symbol |-> Top.symbol,
                                    positionMode |-> position_mode_int[1]], success))
                    /\ remote_mode' = IF success THEN executor.position_mode
                                      ELSE remote_mode
                    /\ IF success
                       THEN /\ stack' = stack
                            /\ pc' = "prepare"
                       ELSE /\ stack' = Returned(stack, Fail("Position mode mismatch"))
                            /\ pc' = "return"
    /\ UNCHANGED <<minted, rebalance, snapshot, metrics, calls, bot>>
    /\ UNCHANGED <<executor, orders, depth, elapsed, ledger, next_uuid,
                   result, raised>>

\* what the exchange can answer to POST /api/v1/orders
CreateResponses ==
    { [kind |-> "ok",        msg |-> <<>>],
      [kind |-> "api_error", msg |-> <<"Balance insufficient">>],
      [kind |-> "api_error", msg |-> <<>>],
      [kind |-> "exception", msg |-> <<"HTTPError">>] }

\* how much of a new order the exchange fills at once: a market order in
\* full, an IOC limit order any part, a FOK limit order all or nothing, a
\* GTC limit order nothing yet (it rests)
ImmediateFills(order_data) ==
    IF order_data.type = "market" THEN {order_data.size}
    ELSE IF order_data.timeInForce = <<"GTC">> THEN {0}
    ELSE IF order_data.timeInForce = <<"FOK">> THEN {0, order_data.size}
    ELSE 0 .. order_data.size

\* a client order id that is minted once and then used again
uuid4_Reused(issued) == IF issued = 0 THEN 1 ELSE issued

\* uuid.uuid4(): a value that was never handed out before (issued counts
\* the values handed out so far)
uuid4(issued) == issued + 1

\* place_order from the client order id to the dry-run return
Prepare ==
    /\ pc = "prepare"
    /\ executor.order_type = "limit" => Len(net) < MaxRequests
    /\ \E resp \in IF executor.order_type = "limit" THEN TickerResponses ELSE {<<>>} :
         LET client_oid == uuid4(next_uuid)
             time_in_force == EffectiveTif(executor.order_type)
             price == IF executor.order_type = "limit"
                      THEN calculate_limit_price(get_best_bid_ask(resp), Top.side)
                      ELSE 0
             limit_price == Cell(executor.order_type = "limit", price)
             order_type == OrderType(executor.order_type, price)
             f == [Top EXCEPT !.client_oid = client_oid, !.order_type = order_type,
                              !.time_in_force = time_in_force,
                              !.limit_price = limit_price]
         IN /\ next_uuid' = next_uuid + 1
            /\ minted' = Append(minted, client_oid)
            /\ net' = IF executor.order_type = "limit"
                      THEN Append(net, Req("get_best_bid_ask", Top.symbol,
                                           get_best_bid_ask(resp)))
                      ELSE net
            /\ IF executor.dry_run
               THEN /\ stack' = Returned([stack EXCEPT ![depth] = f],
                                   [success |-> TRUE, error |-> NoError,
                                    order_id |-> [tag |-> "DRY_RUN_", id |-> client_oid],
                                    dry_run |-> TRUE, partially_filled |-> FALSE])
                    /\ pc' = "return"
               ELSE /\ stack' = [stack EXCEPT ![depth] = f]
                    /\ pc' = "submit"
    /\ UNCHANGED <<rebalance, snapshot, metrics, calls, bot>>
    /\ UNCHANGED <<executor, remote_mode, orders, depth, elapsed, ledger,
                   result, raised>>

\* truthiness of the limit_price local (None and 0.0 are falsy)
Truthy(limit_price) == limit_price # <<>> /\ limit_price[1] # 0

\* place_order, the try block: POST the order, then monitor or log
Submit ==
    /\ pc = "submit"
    /\ Len(net) < MaxRequests
    /\ \E resp \in CreateResponses :
         LET f == Top
             price == IF Truthy(f.limit_price) THEN f.limit_price[1] ELSE 0
             order_data == OrderData(f, f.client_oid, f.order_type, f.time_in_force, price)
             order_id == [tag |-> "", id |-> Len(orders) + 1]
             is_limit == f.order_type = "limit"
             row == Row(Action(f), f.symbol, Abs(f.contracts),
                        IF is_limit THEN f.limit_price ELSE <<>>,
                        order_id, Cell(is_limit, executor.slippage_pct), "FILLED", "")
         IN /\ net' = Append(net, Req("create_order", order_data, resp.kind))
            /\ IF resp.kind = "ok"
               THEN \E d \in ImmediateFills(order_data) :
                      /\ orders' = Append(orders,
                            [size |-> order_data.size, dealSize |-> d,
                             status |-> IF is_limit /\ f.time_in_force = "GTC"
                                           /\ d < order_data.size
                                        THEN "open" ELSE "done"])
                      /\ IF Monitored(f.order_type, f.time_in_force)
                         THEN /\ stack' = [stack EXCEPT ![depth].order_id = order_id]
                              /\ pc' = "monitor"
                              /\ elapsed' = 0
                              /\ ledger' = ledger
                         ELSE /\ ledger' = log_trade(ledger, row)
                              /\ stack' = Returned(
                                    Logged([stack EXCEPT ![depth].order_id = order_id],
                                           Written(row)),
                                    [success |-> TRUE, error |-> NoError,
                                     order_id |-> order_id, dry_run |-> FALSE,
                                     partially_filled |-> FALSE])
                              /\ pc' = "return"
                              /\ elapsed' = elapsed
                      /\ raised' = FALSE
               ELSE /\ orders' = orders
                    /\ ledger' = ledger
                    /\ elapsed' = elapsed
                    /\ IF resp.kind = "api_error"
                       THEN /\ stack' = Returned(stack,
                                   Fail(IF resp.msg = <<>> THEN "Unknown error"
                                        ELSE resp.msg[1]))
                            /\ pc' = "return"
                            /\ raised' = FALSE
                       ELSE LET h == OnException(resp.msg[1]) IN
                            /\ raised' = h.raised
                            /\ stack' = IF h.raised THEN stack
                                        ELSE Returned(stack, h.result)
                            /\ pc' = IF h.raised THEN "done" ELSE "return"
    /\ UNCHANGED <<minted, rebalance, snapshot, metrics, calls, bot>>
    /\ UNCHANGED <<executor, remote_mode, depth, next_uuid, result>>

\* what get_order_details can come back with: {} (any failure), the order's
\* details, or details whose dealSize/size float() cannot parse
DetailsResponses == {"fail", "ok", "malformed"}

Success(order_id, partial) ==
    [success |-> TRUE, error |-> NoError, order_id |-> order_id,
     dry_run |-> FALSE, partially_filled |-> partial]

\* a row as monitor_gtc_order writes it
MonitorRow(f, contracts, status, error) ==
    Row(Action(f), f.symbol, contracts, f.limit_price, f.order_id,
        <<executor.slippage_pct>>, status, error)

\* get_order_details: the details the exchange holds, {} on failure
get_order_details(kind, o) ==
    IF kind = "fail" THEN [NoDetails EXCEPT !.kind = "fail"]
    ELSE [kind |-> kind, status |-> o.status, dealSize |-> o.dealSize, size |-> o.size]

\* a poll that takes any retrieved details for a fill
PollDecision_AnyDetails(order_details) ==
    IF order_details.kind = "ok" THEN "filled" ELSE "sleep"

\* what a poll tick makes of the details: "filled", or "sleep"
PollDecision(order_details) ==
    IF order_details.kind = "ok" /\ order_details.status = "done"
    THEN "filled" ELSE "sleep"

\* a sleep during which the main loop is let run
sleep_Yielding(seconds, at) == "get_ticker_price"

\* time.sleep(seconds): the program has one thread, which blocks and then
\* goes on from where it slept
sleep(seconds, at) == at

\* monitor_gtc_order, one pass of the loop before the timeout
MonitorPoll ==
    /\ pc = "monitor"
    /\ Len(net) < MaxRequests
    /\ ~(elapsed >= executor.gtc_timeout_seconds)
    /\ \E kind \in DetailsResponses :
         LET f == Top
             order_details == get_order_details(kind, orders[f.order_id.id])
             seen == [stack EXCEPT ![depth].order_details = order_details]
             row == MonitorRow(f, Abs(f.contracts), "FILLED", "")
             log == Truthy(f.limit_price)
         IN /\ net' = Append(net, Req("get_order_details", f.order_id, ""))
            /\ IF kind = "malformed"
               THEN LET h == OnException("TypeError") IN
                    /\ raised' = h.raised
                    /\ stack' = IF h.raised THEN seen ELSE Returned(seen, h.result)
                    /\ pc' = IF h.raised THEN "done" ELSE "return"
                    /\ UNCHANGED <<ledger, elapsed>>
               ELSE IF PollDecision(order_details) = "filled"
               THEN /\ ledger' = IF log THEN log_trade(ledger, row) ELSE ledger
                    /\ stack' = Returned(
                          Logged(seen, IF log THEN Written(row) ELSE 0),
                          Success(f.order_id, FALSE))
                    /\ pc' = "return"
                    /\ UNCHANGED <<raised, elapsed>>
               ELSE /\ elapsed' = elapsed + check_interval
                    /\ stack' = seen
                    /\ pc' = sleep(check_interval, "monitor")
                    /\ UNCHANGED <<ledger, raised>>
    /\ UNCHANGED <<minted, rebalance, snapshot, metrics, calls, bot>>
    /\ UNCHANGED <<executor, remote_mode, orders, depth, next_uuid, result>>

\* a timeout branch that cancels whenever the order is not known to be full
TimeoutDecision_CancelUnknown(order_details) ==
    IF order_details.dealSize < order_details.size \/ order_details.kind = "fail"
    THEN "cancel" ELSE "timeout"

\* what the timeout branch makes of the details:
\* "cancel" (not fully filled) or "timeout" (log TIMEOUT and fail)
TimeoutDecision(order_details) ==
    IF order_details.kind = "ok" /\ order_details.dealSize < order_details.size
    THEN "cancel" ELSE "timeout"

\* monitor_gtc_order, the pass of the loop that finds the timeout reached
MonitorTimeout ==
    /\ pc = "monitor"
    /\ Len(net) < MaxRequests
    /\ elapsed >= executor.gtc_timeout_seconds
    /\ \E kind \in DetailsResponses :
         LET f == Top
             order_details == get_order_details(kind, orders[f.order_id.id])
             row == MonitorRow(f, Abs(f.contracts), "TIMEOUT",
                               "GTC timeout - could not get order status")
             log == Truthy(f.limit_price)
             seen == [stack EXCEPT ![depth] =
                        [@ EXCEPT !.at_timeout = TRUE,
                                  !.order_details = order_details]]
         IN /\ net' = Append(net, Req("get_order_details", f.order_id, ""))
            /\ IF kind = "malformed"
               THEN LET h == OnException("TypeError") IN
                    /\ raised' = h.raised
                    /\ stack' = IF h.raised THEN seen ELSE Returned(seen, h.result)
                    /\ pc' = IF h.raised THEN "done" ELSE "return"
                    /\ ledger' = ledger
               ELSE IF TimeoutDecision(order_details) = "cancel"
               THEN /\ stack' = seen
                    /\ pc' = "cancel"
                    /\ UNCHANGED <<ledger, raised>>
               ELSE /\ ledger' = IF log THEN log_trade(ledger, row) ELSE ledger
                    /\ stack' = Returned(
                          Logged(seen, IF log THEN Written(row) ELSE 0),
                          Fail("GTC order timeout"))
                    /\ pc' = "return"
                    /\ raised' = raised
    /\ UNCHANGED <<minted, rebalance, snapshot, metrics, calls, bot>>
    /\ UNCHANGED <<executor, remote_mode, orders, depth, elapsed, next_uuid, result>>

\* a cancel-then-resubmit that sends the whole order again
Unfilled_Total(total_size, filled_size) == total_size

\* unfilled = int(total_size - filled_size)
Unfilled(total_size, filled_size) == total_size - filled_size

\* a monitoring that never resubmits
AfterCancel_NeverRetry(unfilled) == "partial"

\* after the cancel: "retry" (place_order for the remainder) or "partial"
\* (log PARTIAL and return success)
AfterCancel(unfilled) == IF unfilled > 0 THEN "retry" ELSE "partial"

\* monitor_gtc_order from cancel_order to the resubmission
CancelOrder ==
    /\ pc = "cancel"
    /\ LET f == Top
           o == orders[f.order_id.id]
           filled_size == f.order_details.dealSize
           total_size == f.order_details.size
           unfilled == Unfilled(total_size, filled_size)
           log == Truthy(f.limit_price)
           cancelled == MonitorRow(f, Abs(f.contracts), "CANCELLED", "GTC timeout - no fill")
           partial == MonitorRow(f, filled_size, "PARTIAL", "Filled")
           n0 == IF filled_size = 0 /\ log THEN Written(cancelled) ELSE 0
           ledger0 == IF filled_size = 0 /\ log
                      THEN log_trade(ledger, cancelled) ELSE ledger
       IN /\ Len(net) < MaxRequests
          /\ \E cancel_success \in IF o.status = "open" THEN BOOLEAN ELSE {FALSE} :
               /\ net' = Append(net, Req("cancel_order", f.order_id, cancel_success))
               /\ orders' = IF cancel_success
                            THEN [orders EXCEPT ![f.order_id.id].status = "done"]
                            ELSE orders
               /\ LET stk == [stack EXCEPT ![depth].cancel_success = cancel_success] IN
                  IF AfterCancel(unfilled) = "retry"
                  THEN /\ ledger' = ledger0
                       /\ stack' = Append(Logged(stk, n0),
                                          Frame(f.symbol, f.side, unfilled, f.leverage,
                                                f.reduce_only))
                       /\ depth' = Len(stack) + 1
                       /\ pc' = "safety"
                  ELSE /\ ledger' = IF log THEN log_trade(ledger0, partial) ELSE ledger0
                       /\ stack' = Returned(
                             Logged(stk, n0 + (IF log THEN Written(partial) ELSE 0)),
                             Success(f.order_id, TRUE))
                       /\ depth' = depth
                       /\ pc' = "return"
    /\ UNCHANGED <<minted, rebalance, snapshot, metrics, calls, bot>>
    /\ UNCHANGED <<executor, remote_mode, elapsed, next_uuid, result, raised>>

\* the exchange fills more of the resting order
ExchangeFill ==
    /\ pc \in {"monitor", "cancel"}
    /\ LET id == Top.order_id.id IN
       /\ orders[id].status = "open"
       /\ \E d \in (orders[id].dealSize + 1) .. orders[id].size :
            orders' = [orders EXCEPT ![id] =
                         [@ EXCEPT !.dealSize = d,
                                   !.status = IF d = orders[id].size THEN "done"
                                               ELSE "open"]]
    /\ UNCHANGED <<minted, rebalance, snapshot, metrics, calls, bot>>
    /\ UNCHANGED <<executor, remote_mode, pc, stack, depth, elapsed, net, ledger,
                   next_uuid, result, raised>>

\* execute_rebalance after open_short/close_short came back: the result
\* dict gets its action, contracts and usd_value entries
AfterOrder(call, r) ==
    [call EXCEPT !.returned = TRUE,
                 !.result = [success |-> r.success,
                             action |-> Dispatch(call.metrics),
                             contracts |-> <<call.metrics.contracts_to_adjust>>,
                             usd_value |-> <<QAbs(call.metrics.short_position_adjustment)>>,
                             order |-> r]]

\* "return self.place_order(...)" in monitor_gtc_order and "return
\* self.monitor_gtc_order(...)" in place_order hand the result up; the
\* outermost place_order hands it to its caller
ReturnToCaller ==
    /\ pc = "return"
    /\ IF depth > 1
       THEN /\ stack' = [stack EXCEPT ![depth - 1] =
                           [@ EXCEPT !.returned = TRUE, !.result = stack[depth].result]]
            /\ depth' = depth - 1
            /\ UNCHANGED <<pc, result>>
       ELSE /\ result' = stack[depth].result
            /\ pc' = "done"
            /\ UNCHANGED <<stack, depth>>
    /\ rebalance' = IF depth > 1 \/ ~rebalance.called THEN rebalance
                    ELSE AfterOrder(rebalance, stack[depth].result)
    /\ UNCHANGED <<minted, snapshot, metrics, calls, bot>>
    /\ UNCHANGED <<executor, remote_mode, orders, elapsed, net, ledger, next_uuid,
                   raised>>

Next ==
    \/ \E symbol \in Symbols, contracts \in 0 .. MaxContracts, leverage \in Leverages :
         CallOpenShort(symbol, contracts, leverage)
    \/ \E symbol \in Symbols, contracts \in 0 .. MaxContracts :
         CallCloseShort(symbol, contracts)
    \/ \E m \in RebalanceMetrics, symbol \in Symbols, leverage \in Leverages :
         execute_rebalance(m, symbol, leverage)
    \/ SafetyCheck
    \/ verify_position_mode
    \/ set_position_mode
    \/ Prepare
    \/ Submit
    \/ MonitorPoll
    \/ MonitorTimeout
    \/ CancelOrder
    \/ ExchangeFill
    \/ ReturnToCaller

Spec == Init /\ [][Next]_vars

(* ------------------------ PortfolioCalculator -------------------------- *)
\* Holdings are integers in units of 0.01 BTC, the price is in USD per BTC,
\* position sizes are contracts of 1 USD; allocations are percentages.
Targets == {0, 50, 100}
Thresholds == {0, 1, 50}
Prices == {50, 100}

Positions ==
    [symbol : Symbols, currentQty : (0 - MaxQty) .. 1, isInverse : BOOLEAN]

RECURSIVE SeqsUpTo(_, _)
SeqsUpTo(S, n) ==
    IF n = 0 THEN {<<>>}
    ELSE SeqsUpTo(S, n - 1) \cup
         { Append(q, x) : q \in { r \in SeqsUpTo(S, n - 1) : Len(r) = n - 1 }, x \in S }

\* the arguments of calculate_metrics
Snapshots ==
    [cold_storage_btc : 0 .. MaxBtc,
     futures_account : [accountEquity : 0 .. MaxBtc],
     positions : SeqsUpTo(Positions, MaxPositions),
     btc_price : Prices,
     target_allocation : Targets,
     rebalance_threshold : Thresholds]

\* a test that takes every negative quantity for a coin-margined short
IsShort_AnyContract(pos) == pos.currentQty < 0

\* if is_inverse and current_qty < 0
IsShort(pos) == pos.isInverse /\ pos.currentQty < 0

\* the loop over positions: the coin-margined shorts, each contract 1 USD
RECURSIVE position_details(_)
position_details(positions) ==
    IF positions = <<>> THEN <<>>
    ELSE LET pos == Head(positions)
             rest == position_details(Tail(positions))
         IN IF IsShort(pos)
            THEN <<[symbol |-> pos.symbol, qty |-> pos.currentQty,
                    usd_value |-> Abs(pos.currentQty)]>> \o rest
            ELSE rest

RECURSIVE total_short_usd(_)
total_short_usd(details) ==
    IF details = <<>> THEN 0
    ELSE Head(details).usd_value + total_short_usd(Tail(details))

\* a comparison that also takes the boundary
NeedsRebalancing_Inclusive(allocation_deviation, rebalance_threshold) ==
    ~QGt(Q(rebalance_threshold, 1), QAbs(allocation_deviation))

\* needs_rebalancing = abs(allocation_deviation) > rebalance_threshold
NeedsRebalancing(allocation_deviation, rebalance_threshold) ==
    QGt(QAbs(allocation_deviation), Q(rebalance_threshold, 1))

\* an allocation that never shows a negative share
Allocation_Clamped(exposure, total_portfolio_usd) ==
    IF QPositive(total_portfolio_usd) /\ QPositive(exposure)
    THEN QMul(QDiv(exposure, total_portfolio_usd), Q(100, 1))
    ELSE Q(0, 1)

\* (exposure / total_portfolio_usd * 100) if total_portfolio_usd > 0 else 0
Allocation(exposure, total_portfolio_usd) ==
    IF QPositive(total_portfolio_usd)
    THEN QMul(QDiv(exposure, total_portfolio_usd), Q(100, 1))
    ELSE Q(0, 1)

\* a balance that depends on how many calls were made before
Equity_Drifting(futures_account) == futures_account.accountEquity + Len(metrics)

\* float(futures_account.get('accountEquity', 0))
Equity(futures_account) == futures_account.accountEquity

\* an adjustment taken the other way round
ShortAdjustment_Reversed(target_short_position_usd, current_short_position_usd) ==
    QSub(current_short_position_usd, target_short_position_usd)

\* short_position_adjustment = target_short_position_usd - current_short_position_usd
ShortAdjustment(target_short_position_usd, current_short_position_usd) ==
    QSub(target_short_position_usd, current_short_position_usd)

\* PortfolioCalculator.calculate_metrics
calculate_metrics(cold_storage_btc, futures_account, positions, btc_price, target_allocation, rebalance_threshold) ==
    LET futures_btc == Equity(futures_account)
        details == position_details(positions)
        short == Q(total_short_usd(details), 1)
        total_btc == Q(cold_storage_btc + futures_btc, 100)
        price == Q(btc_price, 1)
        cold_storage_usd == QMul(Q(cold_storage_btc, 100), price)
        futures_btc_usd == QMul(Q(futures_btc, 100), price)
        total_portfolio_usd == QMul(total_btc, price)
        gross_btc_exposure_usd == QAdd(cold_storage_usd, futures_btc_usd)
        net_btc_exposure_usd == QSub(gross_btc_exposure_usd, short)
        usd_exposure == short
        current_btc_allocation ==
            Allocation(net_btc_exposure_usd, total_portfolio_usd)
        current_usd_allocation == Allocation(usd_exposure, total_portfolio_usd)
        target_btc_usd == QMul(total_portfolio_usd, Q(target_allocation, 100))
        target_usd_exposure ==
            QMul(total_portfolio_usd, Q(100 - target_allocation, 100))
        allocation_deviation == QSub(current_btc_allocation, Q(target_allocation, 1))
        required_usd_adjustment ==
            QMul(QMul(allocation_deviation, Q(1, 100)), total_portfolio_usd)
        short_position_adjustment == ShortAdjustment(target_usd_exposure, short)
    IN [cold_storage_btc |-> cold_storage_btc,
        cold_storage_usd |-> cold_storage_usd,
        futures_btc |-> futures_btc,
        futures_btc_usd |-> futures_btc_usd,
        total_btc |-> total_btc,
        total_portfolio_usd |-> total_portfolio_usd,
        btc_price |-> btc_price,
        gross_btc_exposure_usd |-> gross_btc_exposure_usd,
        net_btc_exposure_usd |-> net_btc_exposure_usd,
        usd_exposure |-> usd_exposure,
        current_short_usd |-> short,
        current_btc_allocation |-> current_btc_allocation,
        current_usd_allocation |-> current_usd_allocation,
        target_btc_allocation |-> target_allocation,
        target_usd_allocation |-> 100 - target_allocation,
        allocation_deviation |-> allocation_deviation,
        target_btc_usd |-> target_btc_usd,
        target_usd_exposure |-> target_usd_exposure,
        required_usd_adjustment |-> required_usd_adjustment,
        short_position_adjustment |-> short_position_adjustment,
        contracts_to_adjust |-> QInt(QAbs(short_position_adjustment)),
        needs_rebalancing |-> NeedsRebalancing(allocation_deviation,
                                               rebalance_threshold),
        rebalance_threshold |-> rebalance_threshold,
        positions |-> details,
        position_count |-> Len(details)]

\* an executor that takes no part: the calculator is a static method
IdleExecutor ==
    [dry_run |-> TRUE, max_order_usd |-> MaxContracts - 1,
     min_order_usd |-> MinOrderUsd, margin_mode |-> "ISOLATED",
     position_mode |-> "ONE_WAY", auto_set_position_mode |-> FALSE,
     order_type |-> "market", time_in_force |-> "IOC", slippage_pct |-> 0,
     gtc_timeout_seconds |-> MaxTimeout, trade_logging_enabled |-> TRUE]

\* the calculator under every snapshot
InitMetrics ==
    /\ executor = IdleExecutor
    /\ remote_mode = "ONE_WAY"
    /\ orders = <<>>
    /\ pc = "calculate_metrics"
    /\ stack = <<>>
    /\ depth = 0
    /\ elapsed = 0
    /\ net = <<>>
    /\ ledger = <<>>
    /\ next_uuid = 0
    /\ minted = <<>>
    /\ result = NoResult
    /\ raised = FALSE
    /\ rebalance = NoRebalance
    /\ snapshot \in Snapshots
    /\ metrics = NoMetrics
    /\ calls = <<>>
    /\ bot = NoBot

\* one call of PortfolioCalculator.calculate_metrics
CalculateMetrics ==
    /\ pc = "calculate_metrics"
    /\ metrics' = Append(metrics,
                         calculate_metrics(snapshot.cold_storage_btc,
                             snapshot.futures_account, snapshot.positions,
                             snapshot.btc_price, snapshot.target_allocation,
                             snapshot.rebalance_threshold))
    /\ calls' = Append(calls, snapshot)
    /\ pc' = "calculated"
    /\ UNCHANGED <<executor, remote_mode, orders, stack, depth, elapsed, net,
                   ledger, next_uuid, minted, result, raised, rebalance,
                   snapshot, bot>>

NextMetrics == CalculateMetrics

SpecMetrics == InitMetrics /\ [][NextMetrics]_vars

\* the calculator called again and again, as the main loop does
InitRepeated ==
    /\ InitMetrics
    /\ snapshot.target_allocation = 50
    /\ snapshot.rebalance_threshold = 1

\* the next iteration of the loop has its arguments ready: the same ones, or
\* the same at another price
NextSnapshot ==
    /\ pc = "calculated"
    /\ Len(metrics) < MaxCalls
    /\ \E btc_price \in Prices : snapshot' = [snapshot EXCEPT !.btc_price = btc_price]
    /\ pc' = "calculate_metrics"
    /\ UNCHANGED <<executor, remote_mode, orders, stack, depth, elapsed, net,
                   ledger, next_uuid, minted, result, raised, rebalance,
                   metrics, calls, bot>>

NextRepeated == CalculateMetrics \/ NextSnapshot

SpecRepeated == InitRepeated /\ [][NextRepeated]_vars

(* ------------------- KuCoinFuturesClient, the fetches ------------------ *)
\* attempts: the endpoint variants in the order tried, each with its name
\* and what it adds to the path
attempts ==
    << [name |-> "without parameters", query |-> <<>>],
       [name |-> "with currency=XBT", query |-> <<"?currency=", "XBT">>] >>

\* what the exchange can answer to one variant: the data asked for, HTTP
\* 400, a non-success API code with its message, or a failure that raises
VariantResponses(payloads) ==
    { [kind |-> "ok", data |-> d, msg |-> ""] : d \in payloads } \cup
    { [kind |-> "400", data |-> <<>>, msg |-> ""],
      [kind |-> "api_error", data |-> <<>>, msg |-> "Invalid currency"],
      [kind |-> "exception", data |-> <<>>, msg |-> "Read timed out"] }

\* an error text that leaves the variant out
ErrorOf_NoName(resp, attempt_name) ==
    IF resp.kind = "400" THEN <<"400 Bad Request">> ELSE <<resp.msg>>

\* last_error after a variant failed
ErrorOf(resp, attempt_name) ==
    IF resp.kind = "400" THEN <<"400 Bad Request with ", attempt_name>>
    ELSE <<resp.msg>>

\* account payloads: the data dict, here {} or one with the equity
AccountPayloads == { <<>>, <<[accountEquity |-> MaxBtc]>> }

\* positions payloads: lists of positions, open or not
WirePosition(qty, open) ==
    [symbol |-> "XBTUSDM", currentQty |-> qty, isInverse |-> TRUE, isOpen |-> open]

PositionPayloads ==
    { <<>>, <<WirePosition(0 - MaxQty, TRUE)>>,
      <<WirePosition(0 - MaxQty, TRUE), WirePosition(-1, FALSE)>>,
      <<WirePosition(0 - MaxQty, TRUE), WirePosition(0 - MaxQty, TRUE)>> }

\* [pos for pos in positions if pos.get('isOpen', False)]
RECURSIVE OpenOnly(_)
OpenOnly(positions) ==
    IF positions = <<>> THEN <<>>
    ELSE IF Head(positions).isOpen
         THEN <<Head(positions)>> \o OpenOnly(Tail(positions))
         ELSE OpenOnly(Tail(positions))

\* where the program goes when a client call returns: back to whoever
\* calls the client on its own, or on in TradingBot.run
After(fn) ==
    IF ~bot.running THEN "client"
    ELSE IF fn = "get_ticker_price" THEN "get_futures_account"
    ELSE IF fn = "get_futures_account" THEN "get_positions"
    ELSE "calculate"

\* a client call as it is logged when it returns: how many requests it
\* sent, the last of them, what it returned and the error it reported
Returns(fn, arg, sent, returned, error) ==
    [fn |-> fn, arg |-> arg, sent |-> sent, upto |-> Len(net'),
     returned |-> returned, error |-> error]

\* price payloads of the ticker: the last trade price
PricePayloads == {0} \cup Prices

\* get_ticker_price: the price, 0.0 on any failure
get_ticker_price ==
    /\ pc = "get_ticker_price"
    /\ Len(net) < MaxRequests
    /\ \E resp \in VariantResponses(PricePayloads) :
         LET price == IF resp.kind = "ok" THEN resp.data ELSE 0
         IN /\ net' = Append(net, [Req("get_ticker_price", "XBTUSDM", price)
                                   EXCEPT !.wire = resp])
            /\ bot' = [bot EXCEPT !.btc_price = price, !.attempt = 1,
                                  !.last_error = <<>>,
                                  !.log = Append(@, Returns("get_ticker_price",
                                             "XBTUSDM", 1, price,
                                             IF resp.kind = "ok" THEN <<>>
                                             ELSE <<resp.kind>>))]
            /\ pc' = After("get_ticker_price")
    /\ UNCHANGED <<executor, remote_mode, orders, stack, depth, elapsed,
                   ledger, next_uuid, minted, result, raised, rebalance,
                   snapshot, metrics, calls>>

\* return data.get('data', {})
AccountData(data) == data

\* what a successful answer's data becomes before it is returned: the
\* open positions of it for get_positions, the data itself for the account
Parsed(fn, data) ==
    IF fn = "get_positions" THEN OpenOnly(data) ELSE AccountData(data)

\* one turn of the loop over attempts, for either function: the request of
\* the variant bot.attempt, then the return of its data, the next variant,
\* or the failure of the call with the last error
TryVariant(fn, payloads, empty, field) ==
    /\ pc = fn
    /\ Len(net) < MaxRequests
    /\ \E resp \in VariantResponses(payloads) :
         LET attempt == attempts[bot.attempt]
             last_error == ErrorOf(resp, attempt.name)
             returned == IF resp.kind = "ok" THEN Parsed(fn, resp.data) ELSE empty
             last == bot.attempt = Len(attempts)
         IN /\ net' = Append(net, [Req(fn, attempt.query, returned)
                                   EXCEPT !.wire = resp])
            /\ IF resp.kind = "ok" \/ last
               THEN /\ bot' = [bot EXCEPT ![field] = returned, !.attempt = 1,
                                          !.last_error = <<>>,
                                          !.log = Append(@, Returns(fn, "XBT",
                                                     bot.attempt, returned,
                                                     IF resp.kind = "ok" THEN <<>>
                                                     ELSE <<last_error>>))]
                    /\ pc' = After(fn)
               ELSE /\ bot' = [bot EXCEPT !.attempt = @ + 1,
                                          !.last_error = <<last_error>>]
                    /\ pc' = pc
    /\ UNCHANGED <<executor, remote_mode, orders, stack, depth, elapsed,
                   ledger, next_uuid, minted, result, raised, rebalance,
                   snapshot, metrics, calls>>

get_futures_account ==
    TryVariant("get_futures_account", AccountPayloads, <<>>, "account_data")

get_positions ==
    TryVariant("get_positions", PositionPayloads, <<>>, "positions")

(* ------------------ KuCoinFuturesClient, called on its own -------------- *)
\* every JSON value the exchange may put under positionMode, or none
WireValues ==
    { <<>> } \cup
    { <<Json(type, v)>> : type \in {"int", "float", "bool", "str"}, v \in {0, 1} } \cup
    { <<Json("int", 2)>>, <<Json("int", -1)>>, <<Json("None", 0)>> }

\* the modes a caller may ask set_position_mode for
AnyModes == Modes \cup {"BOTH", "one_way", ""}

InitClient ==
    /\ executor = IdleExecutor
    /\ remote_mode \in Modes
    /\ orders = <<>>
    /\ pc = "client"
    /\ stack = <<>>
    /\ depth = 0
    /\ elapsed = 0
    /\ net = <<>>
    /\ ledger = <<>>
    /\ next_uuid = 0
    /\ minted = <<>>
    /\ result = NoResult
    /\ raised = FALSE
    /\ rebalance = NoRebalance
    /\ snapshot = NoSnapshot
    /\ metrics = NoMetrics
    /\ calls = <<>>
    /\ bot = [NoBot EXCEPT !.attempt = 1]

\* a caller starts one of the fetches
ClientFetch ==
    /\ pc = "client"
    /\ Len(bot.log) < MaxClientCalls
    /\ pc' \in {"get_ticker_price", "get_futures_account", "get_positions"}
    /\ UNCHANGED <<executor, remote_mode, orders, stack, depth, elapsed, net,
                   ledger, next_uuid, minted, result, raised, rebalance,
                   snapshot, metrics, calls, bot>>

\* a call of get_best_bid_ask
ClientGetBestBidAsk ==
    /\ pc = "client"
    /\ Len(bot.log) < MaxClientCalls
    /\ \E symbol \in Symbols, resp \in TickerResponses :
         LET quote == get_best_bid_ask(resp)
         IN /\ net' = Append(net, [Req("get_best_bid_ask", symbol, quote)
                                   EXCEPT !.wire = resp])
            /\ bot' = [bot EXCEPT !.log = Append(@, Returns("get_best_bid_ask",
                                             symbol, 1, quote, <<>>))]
    /\ UNCHANGED <<executor, remote_mode, orders, pc, stack, depth, elapsed,
                   ledger, next_uuid, minted, result, raised, rebalance,
                   snapshot, metrics, calls>>

\* a call of get_position_mode, answered with any wire value
ClientGetPositionMode ==
    /\ pc = "client"
    /\ Len(bot.log) < MaxClientCalls
    /\ \E symbol \in Symbols, ok \in BOOLEAN, w \in WireValues :
         LET resp == [ok |-> ok, positionMode |-> w]
             position_mode == get_position_mode(resp)
         IN /\ net' = Append(net, [Req("get_position_mode", symbol, position_mode)
                                   EXCEPT !.wire = resp])
            /\ bot' = [bot EXCEPT !.log = Append(@, Returns("get_position_mode",
                                             symbol, 1, position_mode, <<>>))]
    /\ UNCHANGED <<executor, remote_mode, orders, pc, stack, depth, elapsed,
                   ledger, next_uuid, minted, result, raised, rebalance,
                   snapshot, metrics, calls>>

\* a call of set_position_mode for any mode
ClientSetPositionMode ==
    /\ pc = "client"
    /\ Len(bot.log) < MaxClientCalls
    /\ \E symbol \in Symbols, position_mode \in AnyModes, success \in BOOLEAN :
         LET position_mode_int == ModeInt(position_mode)
             sent == position_mode_int # <<>>
             returned == sent /\ success
         IN /\ net' = IF sent
                      THEN Append(net, Req("set_position_mode",
                                      [symbol |-> symbol,
                                       positionMode |-> position_mode_int[1]],
                                      returned))
                      ELSE net
            /\ remote_mode' = IF returned THEN position_mode ELSE remote_mode
            /\ bot' = [bot EXCEPT !.log = Append(@, Returns("set_position_mode",
                                             position_mode, IF sent THEN 1 ELSE 0,
                                             returned, <<>>))]
    /\ UNCHANGED <<executor, orders, pc, stack, depth, elapsed,
                   ledger, next_uuid, minted, result, raised, rebalance,
                   snapshot, metrics, calls>>

NextClient ==
    \/ ClientFetch
    \/ get_ticker_price
    \/ get_futures_account
    \/ get_positions
    \/ ClientGetBestBidAsk
    \/ ClientGetPositionMode
    \/ ClientSetPositionMode

SpecClient == InitClient /\ [][NextClient]_vars

(* ---------------------------- TradingBot.run --------------------------- *)
\* the main loop comes round again after a lifecycle: the next one starts
\* with the executor, the exchange's position mode and the ids handed out
\* so far; requests, orders and rows are followed one lifecycle at a time
NextCycle ==
    /\ pc = "done"
    /\ ~raised
    /\ next_uuid < MaxIssued
    /\ pc' = "idle"
    /\ orders' = <<>>
    /\ stack' = <<>>
    /\ depth' = 0
    /\ elapsed' = 0
    /\ net' = <<>>
    /\ ledger' = <<>>
    /\ result' = NoResult
    /\ rebalance' = NoRebalance
    /\ UNCHANGED <<executor, remote_mode, next_uuid, minted, raised, snapshot,
                   metrics, calls, bot>>

NextCycles == Next \/ NextCycle

SpecCycles == Init /\ [][NextCycles]_vars

\* the same, with the exchange's orders and the trades CSV kept from one
\* lifecycle to the next: the exchange goes on numbering its orders and the
\* file is only ever appended to
NextLifecycle ==
    /\ pc = "done"
    /\ ~raised
    /\ next_uuid < MaxIssued
    /\ pc' = "idle"
    /\ stack' = <<>>
    /\ depth' = 0
    /\ elapsed' = 0
    /\ net' = <<>>
    /\ result' = NoResult
    /\ rebalance' = NoRebalance
    /\ UNCHANGED <<executor, remote_mode, orders, ledger, next_uuid, minted,
                   raised, snapshot, metrics, calls, bot>>

\* a live executor that writes the trades CSV
InitLedger ==
    /\ Init
    /\ ~executor.dry_run
    /\ executor.trade_logging_enabled
    /\ executor.auto_set_position_mode
    /\ executor.slippage_pct = 0
    /\ executor.time_in_force \in {"IOC", "GTC"}

NextLedger == Next \/ NextLifecycle

SpecLedger == InitLedger /\ [][NextLedger]_vars

\* the executors TradingBot.__init__ builds here: limit orders resting GTC,
\* the position mode set when it differs, dry run or live
BotExecutors ==
    { [IdleExecutor EXCEPT !.dry_run = d, !.auto_set_position_mode = TRUE,
                           !.order_type = "limit", !.time_in_force = "GTC"] :
      d \in BOOLEAN }

\* TradingBot.__init__ and the first iteration of run about to start
InitBot ==
    /\ executor \in BotExecutors
    /\ remote_mode \in Modes
    /\ orders = <<>>
    /\ pc = "get_ticker_price"
    /\ stack = <<>>
    /\ depth = 0
    /\ elapsed = 0
    /\ net = <<>>
    /\ ledger = <<>>
    /\ next_uuid = 0
    /\ minted = <<>>
    /\ result = NoResult
    /\ raised = FALSE
    /\ rebalance = NoRebalance
    /\ snapshot = NoSnapshot
    /\ metrics = NoMetrics
    /\ calls = <<>>
    /\ \E auto_rebalance \in BOOLEAN, target_allocation \in {50, 100} :
         bot = [NoBot EXCEPT !.auto_rebalance = auto_rebalance,
                             !.cold_storage_btc = MaxBtc,
                             !.target_allocation = target_allocation,
                             !.rebalance_threshold = 1,
                             !.fetch_interval = FETCH_INTERVAL,
                             !.running = TRUE, !.attempt = 1]

\* an execute_rebalance without its switch and its size checks
BotDecision_NoGates(m) ==
    IF ~m.needs_rebalancing THEN "balanced"
    ELSE IF QPositive(m.allocation_deviation) THEN "open_short"
    ELSE "close_short"

\* TradingBot.execute_rebalance up to the call of the executor: what it
\* does with the metrics
BotDecision(m) ==
    LET adjustment_usd == QAbs(m.short_position_adjustment)
    IN IF ~m.needs_rebalancing THEN "balanced"
       ELSE IF ~bot.auto_rebalance THEN "disabled"
       ELSE IF QGt(adjustment_usd, Q(executor.max_order_usd, 1)) THEN "too_large"
       ELSE IF QGt(Q(executor.min_order_usd, 1), adjustment_usd) THEN "too_small"
       ELSE IF QPositive(m.allocation_deviation) THEN "open_short"
       ELSE "close_short"

\* run after the three fetches: the metrics when price and account data
\* are there, then execute_rebalance when rebalancing is needed, then the
\* call of the executor or the sleep until the next fetch
Calculate ==
    /\ pc = "calculate"
    /\ IF bot.btc_price > 0 /\ bot.account_data # <<>>
       THEN LET args == [cold_storage_btc |-> bot.cold_storage_btc,
                         futures_account |-> bot.account_data[1],
                         positions |-> bot.positions,
                         btc_price |-> bot.btc_price,
                         target_allocation |-> bot.target_allocation,
                         rebalance_threshold |-> bot.rebalance_threshold]
                m == calculate_metrics(args.cold_storage_btc, args.futures_account,
                                       args.positions, args.btc_price,
                                       args.target_allocation,
                                       args.rebalance_threshold)
                d == BotDecision(m)
            IN /\ snapshot' = args
               /\ metrics' = <<m>>
               /\ calls' = <<args>>
               /\ IF d = "open_short"
                  THEN /\ open_short("XBTUSDM", m.contracts_to_adjust, 1)
                       /\ bot' = bot
                  ELSE IF d = "close_short"
                  THEN /\ close_short("XBTUSDM", m.contracts_to_adjust)
                       /\ bot' = bot
                  ELSE /\ pc' = "sleep"
                       /\ bot' = [bot EXCEPT !.slept = <<bot.fetch_interval>>]
                       /\ UNCHANGED <<stack, depth>>
       ELSE /\ pc' = "sleep"
            /\ bot' = [bot EXCEPT !.slept = <<bot.fetch_interval>>]
            /\ UNCHANGED <<stack, depth, snapshot, metrics, calls>>
    /\ UNCHANGED <<executor, remote_mode, orders, elapsed, net, ledger,
                   next_uuid, minted, result, raised, rebalance>>

\* the executor has returned to execute_rebalance, and that to run: after
\* a rebalance the loop waits for the order to settle and goes on, otherwise
\* it sleeps until the next fetch; an exception would leave run
AfterPlacement ==
    /\ pc = "done"
    /\ bot.running
    /\ IF raised
       THEN /\ pc' = "stopped"
            /\ bot' = bot
       ELSE /\ pc' = "sleep"
            /\ bot' = [bot EXCEPT !.executed = result.success,
                                  !.slept = <<IF result.success THEN settle_seconds
                                              ELSE bot.fetch_interval>>]
    /\ UNCHANGED <<executor, remote_mode, orders, stack, depth, elapsed, net,
                   ledger, next_uuid, minted, result, raised, rebalance,
                   snapshot, metrics, calls>>

\* the sleep is over and the next iteration starts; requests, orders, rows
\* and ids are followed one iteration at a time
NextIteration ==
    /\ pc = "sleep"
    /\ pc' = "get_ticker_price"
    /\ bot' = [bot EXCEPT !.btc_price = 0, !.account_data = <<>>,
                          !.positions = <<>>, !.log = <<>>, !.executed = FALSE,
                          !.slept = <<>>, !.attempt = 1, !.last_error = <<>>]
    /\ orders' = <<>>
    /\ stack' = <<>>
    /\ depth' = 0
    /\ elapsed' = 0
    /\ net' = <<>>
    /\ ledger' = <<>>
    /\ next_uuid' = 0
    /\ minted' = <<>>
    /\ result' = NoResult
    /\ snapshot' = NoSnapshot
    /\ metrics' = NoMetrics
    /\ calls' = <<>>
    /\ UNCHANGED <<executor, remote_mode, raised, rebalance>>

NextBot ==
    \/ get_ticker_price
    \/ get_futures_account
    \/ get_positions
    \/ Calculate
    \/ SafetyCheck
    \/ verify_position_mode
    \/ set_position_mode
    \/ Prepare
    \/ Submit
    \/ MonitorPoll
    \/ MonitorTimeout
    \/ CancelOrder
    \/ ExchangeFill
    \/ ReturnToCaller
    \/ AfterPlacement
    \/ NextIteration

SpecBot == InitBot /\ [][NextBot]_vars

(* ===================== properties of the lifecycle ===================== *)
Frames == 1 .. Len(stack)

\* positions in net of the requests one invocation sent for one operation
Sent(i, op) == { k \in 1 .. Len(net) : net[k].frame = i /\ net[k].op = op }

\* rows of the ledger that carry one order id and one status
Rows(order_id, status) ==
    { k \in 1 .. Len(ledger) : ledger[k].order_id = order_id /\ ledger[k].status = status }

RowsOf(order_id) == { k \in 1 .. Len(ledger) : ledger[k].order_id = order_id }

OutOfRange(contracts) ==
    contracts > executor.max_order_usd \/ contracts < executor.min_order_usd

\* C1: a place_order call whose contract count is above max_order_usd or
\* below min_order_usd, live or dry-run, sends no network request at all
\* (no position-mode read, no quote fetch, no order-create) and returns a
\* failure: it is either still at the size gate or has returned a failure.
C1_SizeGateBeforeNetwork ==
    \A i \in Frames :
        OutOfRange(stack[i].contracts) =>
            /\ \A k \in 1 .. Len(net) : net[k].frame # i
            /\ \/ depth = i /\ pc = "safety" /\ ~stack[i].returned
               \/ /\ stack[i].returned
                  /\ ~stack[i].result.success
                  /\ stack[i].result.error \in {"Order size exceeds maximum",
                                                "Order size below minimum"}

\* an order above the maximum was asked for and the call has come back
C1_Witness ==
    /\ pc = "done"
    /\ stack # <<>>
    /\ stack[1].contracts > executor.max_order_usd
    /\ ~result.success

\* the position-mode check of invocation i has passed before request k
ModePassedBefore(i, k) ==
    \/ \E j \in Sent(i, "get_position_mode") :
          j < k /\ net[j].resp = executor.position_mode
    \/ /\ executor.auto_set_position_mode
       /\ \E j \in Sent(i, "get_position_mode"), m \in Sent(i, "set_position_mode") :
             /\ j < m /\ m < k
             /\ net[j].resp \notin {"", executor.position_mode}
             /\ net[m].resp = TRUE

\* the position-mode check of invocation i has failed
ModeFailed(i) ==
    \/ \E j \in Sent(i, "get_position_mode") :
          \/ net[j].resp = ""
          \/ net[j].resp # executor.position_mode /\ ~executor.auto_set_position_mode
    \/ \E m \in Sent(i, "set_position_mode") : net[m].resp = FALSE

\* C2: an order-create request is sent only after the position-mode check
\* of the same call passed (fetched mode equal to the configured one, or a
\* mismatch with auto-set enabled and a successful set); when the mode
\* cannot be fetched, or differs with auto-set disabled or a failed set,
\* place_order returns the failure 'Position mode mismatch' and sends no
\* order-create request.
C2_CreateOnlyAfterModeCheck ==
    /\ \A k \in 1 .. Len(net) :
          net[k].op = "create_order" => ModePassedBefore(net[k].frame, k)
    /\ \A i \in Frames :
          ModeFailed(i) =>
             /\ stack[i].returned
             /\ stack[i].result = Fail("Position mode mismatch")
             /\ Sent(i, "create_order") = {}

\* an order was created after a mismatch that set_position_mode repaired
C2_Witness ==
    \E k \in 1 .. Len(net) :
        /\ net[k].op = "create_order"
        /\ \E m \in Sent(net[k].frame, "set_position_mode") : m < k /\ net[m].resp = TRUE

\* the timeout branch of invocation i read the order's details and found ...
TimeoutRead(i) == stack[i].at_timeout /\ stack[i].order_details.kind = "ok"

PartialTimeout(i) ==
    /\ TimeoutRead(i)
    /\ 0 < stack[i].order_details.dealSize
    /\ stack[i].order_details.dealSize < stack[i].order_details.size

ZeroFillTimeout(i) ==
    /\ TimeoutRead(i)
    /\ stack[i].order_details.dealSize = 0
    /\ stack[i].order_details.size > 0

FullFillTimeout(i) ==
    /\ TimeoutRead(i)
    /\ stack[i].order_details.dealSize = stack[i].order_details.size

Remainder(i) == stack[i].order_details.size - stack[i].order_details.dealSize

\* an order-create payload for `size` contracts that repeats the symbol,
\* side, leverage and reduce-only flag of invocation i
SameOrderFor(order_data, i, size) ==
    /\ order_data.size = size
    /\ order_data.symbol = stack[i].symbol
    /\ order_data.side = stack[i].side
    /\ order_data.leverage = stack[i].leverage
    /\ order_data.reduceOnly = stack[i].reduce_only

\* the cancel of invocation i's order went out, once, before anything the
\* next invocation sent
CancelledBeforeNext(i) ==
    /\ Cardinality(Sent(i, "cancel_order")) = 1
    /\ \A c \in Sent(i, "cancel_order") :
          /\ net[c].arg = stack[i].order_id
          /\ \A k \in 1 .. Len(net) : net[k].frame > i => c < k

\* C3 as stated: after a timeout with 0 < f < size the order is cancelled
\* and exactly one new order, for exactly size - f contracts with the same
\* symbol, side, leverage and reduce-only flag, is submitted.
C3_Original ==
    pc = "done" =>
       \A i \in Frames :
          PartialTimeout(i) =>
             /\ CancelledBeforeNext(i)
             /\ i + 1 \in Frames
             /\ Cardinality(Sent(i + 1, "create_order")) = 1
             /\ \A k \in Sent(i + 1, "create_order") :
                   SameOrderFor(net[k].arg, i, Remainder(i))

\* C3, amended: after a timeout with 0 < f < size the order is cancelled
\* and place_order is then called once for exactly size - f contracts with
\* the same symbol, side, leverage and reduce-only flag; that call sends at
\* most one order-create request, always for exactly size - f contracts
\* with the same symbol, side, leverage and reduce-only flag, and it sends
\* one if and only if size - f lies within [min_order_usd, max_order_usd]
\* and its position-mode check passes.
C3_RemainderResubmitted ==
    \A i \in Frames :
       PartialTimeout(i) =>
          /\ \/ depth = i /\ pc = "cancel" /\ Len(stack) = i
             \/ i + 1 \in Frames
          /\ i + 1 \in Frames =>
                /\ CancelledBeforeNext(i)
                /\ stack[i + 1].contracts = Remainder(i)
                /\ stack[i + 1].symbol = stack[i].symbol
                /\ stack[i + 1].side = stack[i].side
                /\ stack[i + 1].leverage = stack[i].leverage
                /\ stack[i + 1].reduce_only = stack[i].reduce_only
                /\ Cardinality(Sent(i + 1, "create_order")) <= 1
                /\ \A k \in Sent(i + 1, "create_order") :
                      SameOrderFor(net[k].arg, i, Remainder(i))
                /\ stack[i + 1].returned =>
                      (Sent(i + 1, "create_order") # {}
                         <=> /\ ~OutOfRange(Remainder(i))
                             /\ ModePassedBefore(i + 1, Len(net) + 1))

\* 3 contracts asked, 1 filled at the timeout, and the new order for the
\* remaining 2 has been sent
C3_Witness ==
    /\ Len(stack) >= 2
    /\ PartialTimeout(1)
    /\ stack[1].order_details.size = 3
    /\ stack[1].order_details.dealSize = 1
    /\ \E k \in Sent(2, "create_order") : net[k].arg.size = 2

\* C4: after a timeout with 0 < f < size, exactly one ledger record with
\* status PARTIAL and contract count f, carrying the original order id, has
\* been written by the time the remainder is resubmitted (stated for a
\* logger that is enabled).
C4_PartialRecordWritten ==
    executor.trade_logging_enabled =>
       \A i \in Frames :
          PartialTimeout(i) /\ i + 1 \in Frames =>
             Cardinality({ k \in Rows(stack[i].order_id, "PARTIAL") :
                             ledger[k].contracts = stack[i].order_details.dealSize }) = 1

\* C5: after a timeout with nothing filled the order is cancelled and the
\* lifecycle ends there: no order-create request follows for the unfilled
\* contracts, and the order has its one CANCELLED record.
C5_NoResubmissionAfterZeroFill ==
    \A i \in Frames :
       ZeroFillTimeout(i) =>
          /\ \A k \in 1 .. Len(net) : net[k].op = "create_order" => net[k].frame <= i
          /\ stack[i].returned /\ executor.trade_logging_enabled =>
                /\ Cardinality(RowsOf(stack[i].order_id)) = 1
                /\ Cardinality(Rows(stack[i].order_id, "CANCELLED")) = 1

\* C6: when the details fetched at the timeout show the order fully filled,
\* the lifecycle ends as FILLED: a success result, one FILLED record, no
\* cancel and no resubmission (stated for a logger that is enabled).
C6_FullFillAtTimeoutIsFilled ==
    executor.trade_logging_enabled =>
       \A i \in Frames :
          FullFillTimeout(i) =>
             /\ stack[i].returned
             /\ stack[i].result.success
             /\ Cardinality(Rows(stack[i].order_id, "FILLED")) = 1
             /\ Sent(i, "cancel_order") = {}
             /\ i + 1 \notin Frames

\* the timeout branch of invocation i could not retrieve the details
TimeoutUnknown(i) == stack[i].at_timeout /\ stack[i].order_details.kind = "fail"

\* what C7 says of everything but the ledger: a failure result, no cancel,
\* no new order
TimeoutUnknownEnds(i) ==
    /\ stack[i].returned
    /\ stack[i].result = Fail("GTC order timeout")
    /\ Sent(i, "cancel_order") = {}
    /\ i + 1 \notin Frames
    /\ \A k \in Rows(stack[i].order_id, "TIMEOUT") :
          ledger[k].contracts = stack[i].contracts

\* C7 as stated: when get_order_details fails at the timeout the lifecycle
\* returns a failure, exactly one TIMEOUT record is written, and neither a
\* cancel nor a new order is sent.
C7_Original ==
    \A i \in Frames :
       TimeoutUnknown(i) =>
          /\ TimeoutUnknownEnds(i)
          /\ Cardinality(RowsOf(stack[i].order_id)) = 1
          /\ Cardinality(Rows(stack[i].order_id, "TIMEOUT")) = 1

\* C7, amended: when get_order_details fails at the timeout the lifecycle
\* returns the failure 'GTC order timeout' and sends neither a cancel nor a
\* new order; with trade logging enabled exactly one ledger record, with
\* status TIMEOUT, is written for the order, and with trade logging
\* disabled none is.
C7_TimeoutUnknown ==
    \A i \in Frames :
       TimeoutUnknown(i) =>
          /\ TimeoutUnknownEnds(i)
          /\ Cardinality(RowsOf(stack[i].order_id)) =
                (IF executor.trade_logging_enabled THEN 1 ELSE 0)
          /\ Rows(stack[i].order_id, "TIMEOUT") = RowsOf(stack[i].order_id)

\* the details could not be fetched at the timeout, with logging enabled,
\* and the lifecycle has come back
C7_Witness ==
    /\ pc = "done"
    /\ stack # <<>>
    /\ executor.trade_logging_enabled
    /\ TimeoutUnknown(1)
    /\ ~result.success

\* a step of monitor_gtc_order that polls before the timeout
PollStep ==
    /\ pc = "monitor"
    /\ ~(elapsed >= executor.gtc_timeout_seconds)
    /\ net' # net

\* the poll sent one get_order_details for the monitored order, and the
\* details it got are the exchange's
PollFetches ==
    /\ Len(net') = Len(net) + 1
    /\ net'[Len(net')].op = "get_order_details"
    /\ net'[Len(net')].arg = stack[depth].order_id
    /\ stack'[depth].order_details.kind = "ok" =>
          stack'[depth].order_details.status = orders[stack[depth].order_id.id].status

\* the poll ended the lifecycle as FILLED with a success result
PollEndsFilled ==
    /\ pc' = "return"
    /\ stack'[depth].returned
    /\ stack'[depth].result = Success(stack[depth].order_id, FALSE)
    /\ Sent(depth, "cancel_order") = {}

\* the poll appended one FILLED record carrying the requested limit price
PollWritesFilled ==
    /\ Len(ledger') = Len(ledger) + 1
    /\ SubSeq(ledger', 1, Len(ledger)) = ledger
    /\ LET row == ledger'[Len(ledger')] IN
       /\ row.status = "FILLED"
       /\ row.order_id = stack[depth].order_id
       /\ row.contracts = stack[depth].contracts
       /\ \E c \in Sent(depth, "create_order") : row.limit_price = net[c].arg.price

\* the poll left the order monitored: no outcome, no record, no cancel
PollContinues ==
    /\ pc' = "monitor"
    /\ depth' = depth
    /\ ~stack'[depth].returned
    /\ ledger' = ledger
    /\ orders' = orders
    /\ elapsed' = elapsed + check_interval

\* C8 as stated: before the timeout each poll tick fetches the order
\* details; status done ends the lifecycle as FILLED with a success result
\* and one FILLED record carrying the requested limit price; status not
\* done or a failed fetch continues the monitoring with no outcome, cancel
\* or record.
C8_Original ==
    [][PollStep =>
         /\ PollFetches
         /\ LET od == stack'[depth].order_details IN
            /\ od.kind = "ok" /\ od.status = "done" =>
                  PollEndsFilled /\ PollWritesFilled
            /\ od.kind = "fail" \/ (od.kind = "ok" /\ od.status # "done") =>
                  PollContinues]_vars

\* C8, amended: before the timeout each poll tick fetches the order
\* details; when they are retrieved and parse, status done ends the
\* lifecycle as FILLED with a success result and, with trade logging
\* enabled, one FILLED record carrying the requested limit price (no record
\* with logging disabled); status not done or a failed fetch continues the
\* monitoring with no outcome, cancel or record; details that do not parse
\* end the lifecycle with a failure result and no record.
C8_PollTick ==
    [][PollStep =>
         /\ PollFetches
         /\ LET od == stack'[depth].order_details IN
            /\ od.kind = "ok" /\ od.status = "done" =>
                  /\ PollEndsFilled
                  /\ IF executor.trade_logging_enabled
                     THEN PollWritesFilled ELSE ledger' = ledger
            /\ od.kind = "fail" \/ (od.kind = "ok" /\ od.status # "done") =>
                  PollContinues
            /\ od.kind = "malformed" =>
                  /\ pc' = "return"
                  /\ ~stack'[depth].result.success
                  /\ ledger' = ledger]_vars

\* a poll that continued was followed by a poll that found the order done
\* and wrote its FILLED record
C8_Witness ==
    /\ pc = "return"
    /\ elapsed >= check_interval
    /\ ~stack[depth].at_timeout
    /\ stack[depth].order_details.status = "done"
    /\ stack[depth].result.success
    /\ Rows(stack[depth].order_id, "FILLED") # {}

\* C9: with trade logging enabled, every order attempt that has returned
\* its result (filled, partially filled, cancelled with no fill, timed out,
\* rejected by the size gate, by the position-mode check or by the
\* exchange, or simulated in dry-run) has written exactly one ledger record.
C9_OneRecordPerAttempt ==
    executor.trade_logging_enabled =>
       \A i \in Frames : stack[i].returned => stack[i].n_logged = 1

\* C10: place_order never raises: whatever the network calls do (transport
\* or HTTP error, non-success API code, a failure inside the monitoring or
\* inside a resubmission), every call that has come back returned a result
\* with a boolean success field, and every failure result carries an error
\* message.
C10_NeverRaises ==
    /\ ~raised
    /\ pc = "done" /\ stack # <<>> => stack[1].returned /\ result = stack[1].result
    /\ \A i \in Frames :
          stack[i].returned =>
             /\ stack[i].result.success \in BOOLEAN
             /\ ~stack[i].result.success =>
                   stack[i].result.error \notin {NoError, NoResult.error}

\* the monitoring of a resubmitted remainder failed on details it could
\* not parse, and the lifecycle came back with that failure as a value
C10_Witness ==
    /\ pc = "done"
    /\ Len(stack) >= 2
    /\ stack[2].order_details.kind = "malformed"
    /\ result = Fail("TypeError")

\* the most reads of the order's details one monitoring can make: one per
\* check_interval before the timeout, and the one at the timeout
MostReads ==
    (executor.gtc_timeout_seconds + check_interval - 1) \div check_interval + 1

\* C11: every lifecycle comes to an end because the monitoring of one
\* order ends by its timeout at the latest (it reads the order's details at
\* most once per check interval up to the timeout, and once at it) and
\* because each resubmitted order is for strictly fewer contracts than the
\* attempt before it, so that there are finitely many resubmissions.
C11_AttemptsShrink ==
    /\ \A i \in Frames : Cardinality(Sent(i, "get_order_details")) <= MostReads
    /\ \A i \in Frames : i > 1 => stack[i].contracts < stack[i - 1].contracts

NoDuplicates(seq) ==
    \A a, b \in 1 .. Len(seq) : a # b => seq[a] # seq[b]

\* the attempts of the running lifecycle that have been given a client id
Minted == { i \in Frames : stack[i].client_oid # 0 }

\* C12: every order attempt, a resubmitted remainder included, is given a
\* client order id that no earlier attempt of this or of an earlier
\* lifecycle was given: the ids given out are pairwise different, every
\* order-create request carries the id of its own attempt, and so does the
\* synthetic order id of every dry-run submission.
C12_ClientOidsNeverReused ==
    /\ NoDuplicates(minted)
    /\ Len(minted) >= Cardinality(Minted)
    /\ \A i \in Minted :
          /\ \E a \in 1 .. Len(minted) : minted[a] = stack[i].client_oid
          /\ \A j \in Minted : i # j => stack[i].client_oid # stack[j].client_oid
    /\ \A k \in 1 .. Len(net) :
          net[k].op = "create_order" =>
             /\ net[k].frame \in Minted
             /\ net[k].arg.clientOid = stack[net[k].frame].client_oid
    /\ \A i \in Frames :
          stack[i].returned /\ stack[i].result.dry_run =>
             /\ i \in Minted
             /\ stack[i].result.order_id = [tag |-> "DRY_RUN_", id |-> stack[i].client_oid]

\* a second lifecycle, after one that submitted an order, has sent an
\* order and then a resubmitted remainder of it
C12_Witness ==
    /\ Len(minted) = 3
    /\ Len(stack) = 2
    /\ Sent(1, "create_order") # {}
    /\ Sent(2, "create_order") # {}

\* C13: in dry-run mode a place_order call that passes the size gate sends
\* no position-mode read or write, no order-create request, no order-detail
\* read and no cancel, never reaches the monitoring (or a resubmission), and
\* returns success with a synthetic order id, whatever the order type and
\* time-in-force.
C13_DryRunSendsNothing ==
    executor.dry_run =>
       /\ \A k \in 1 .. Len(net) : net[k].op = "get_best_bid_ask"
       /\ pc \in {"idle", "safety", "prepare", "return", "done"}
       /\ orders = <<>>
       /\ Len(stack) <= 1
       /\ ~raised
       /\ \A i \in Frames :
             ~OutOfRange(stack[i].contracts) =>
                /\ ~stack[i].returned => pc \in {"safety", "prepare"}
                /\ stack[i].returned =>
                      /\ stack[i].result.success
                      /\ stack[i].result.dry_run
                      /\ stack[i].result.order_id.tag = "DRY_RUN_"

\* a dry-run limit order with time-in-force GTC has come back
C13_Witness ==
    /\ executor.dry_run
    /\ executor.order_type = "limit"
    /\ executor.time_in_force = "GTC"
    /\ pc = "done"
    /\ stack # <<>>
    /\ stack[1].order_type = "limit"
    /\ result.success

\* a step of place_order that sends the order-create request
SubmitStep == pc = "submit" /\ net' # net

\* ... and the exchange accepted the order
Accepted == net'[Len(net')].resp = "ok"

\* the accepted order went out as a limit order with time-in-force GTC
SentAsGtcLimit ==
    /\ net'[Len(net')].arg.type = "limit"
    /\ net'[Len(net')].arg.timeInForce = <<"GTC">>

\* the step ended the call with a success result
FinishesAtOnce ==
    /\ pc' = "return"
    /\ stack'[depth].returned
    /\ stack'[depth].result.success
    /\ Sent(depth, "get_order_details") = {}

\* the step appended one FILLED record for the new order
WritesFilled ==
    /\ Len(ledger') = Len(ledger) + 1
    /\ SubSeq(ledger', 1, Len(ledger)) = ledger
    /\ ledger'[Len(ledger')].status = "FILLED"
    /\ ledger'[Len(ledger')].order_id = stack'[depth].order_id
    /\ ledger'[Len(ledger')].contracts = stack[depth].contracts

\* the monitoring is entered from the order-create step only
MonitorFromSubmit == pc' = "monitor" => pc \in {"submit", "monitor"}

\* C14 as stated: the monitoring is entered if and only if a live order
\* was accepted by the exchange and went out as a limit order with
\* effective time-in-force GTC; any other accepted order (market, IOC or
\* FOK limit, limit downgraded to market) finishes at once with a success
\* result and one FILLED ledger record.
C14_Original ==
    [][/\ MonitorFromSubmit
       /\ SubmitStep =>
            /\ ~executor.dry_run
            /\ pc' = "monitor" <=> (Accepted /\ SentAsGtcLimit)
            /\ Accepted /\ ~SentAsGtcLimit => FinishesAtOnce /\ WritesFilled]_vars

\* C14, amended: the monitoring is entered if and only if a live order was
\* accepted by the exchange and went out as a limit order with effective
\* time-in-force GTC; any other accepted order (market, IOC or FOK limit,
\* limit downgraded to market) finishes at once with a success result and,
\* with trade logging enabled, one FILLED ledger record (no record with
\* trade logging disabled).
C14_MonitorIffGtcLimit ==
    [][/\ MonitorFromSubmit
       /\ SubmitStep =>
            /\ ~executor.dry_run
            /\ pc' = "monitor" <=> (Accepted /\ SentAsGtcLimit)
            /\ Accepted /\ ~SentAsGtcLimit =>
                  /\ FinishesAtOnce
                  /\ IF executor.trade_logging_enabled
                     THEN WritesFilled ELSE ledger' = ledger]_vars

\* a limit order configured GTC went out as a market order for want of a
\* quote, was accepted, and came back at once with its FILLED record
C14_Witness ==
    /\ pc = "done"
    /\ stack # <<>>
    /\ executor.order_type = "limit"
    /\ executor.time_in_force = "GTC"
    /\ \E k \in Sent(1, "create_order") : net[k].arg.type = "market" /\ net[k].resp = "ok"
    /\ result.success
    /\ Cardinality(Rows(stack[1].order_id, "FILLED")) = 1

\* C15: a limit order placed with negative slippage is sent with
\* time-in-force GTC whatever time-in-force (IOC, FOK or GTC) is configured;
\* with slippage >= 0 the configured time-in-force is sent unchanged.
C15_NegativeSlippageForcesGtc ==
    \A k \in 1 .. Len(net) :
       net[k].op = "create_order" /\ net[k].arg.type = "limit" =>
          net[k].arg.timeInForce =
             (IF executor.slippage_pct < 0 THEN <<"GTC">>
              ELSE <<executor.time_in_force>>)

\* a limit order configured IOC with negative slippage went out as GTC
C15_Witness ==
    /\ executor.time_in_force = "IOC"
    /\ executor.slippage_pct < 0
    /\ \E k \in 1 .. Len(net) :
          /\ net[k].op = "create_order"
          /\ net[k].arg.type = "limit"
          /\ net[k].arg.timeInForce = <<"GTC">>

\* the quote that invocation i was given is not usable: the fetch failed,
\* or the best bid or the best ask is zero
NoUsableQuote(i) ==
    \E k \in Sent(i, "get_best_bid_ask") :
       \/ net[k].resp = <<>>
       \/ net[k].resp[1].best_bid = 0
       \/ net[k].resp[1].best_ask = 0

\* C16: when the order type is limit and no usable quote is available, the
\* attempt does not fail for that: the order is submitted as a market
\* order, with no price and no time-in-force field (in dry-run the
\* simulated submission succeeds).
C16_NoQuoteFallsBackToMarket ==
    \A i \in Frames :
       NoUsableQuote(i) =>
          /\ stack[i].order_type = "market"
          /\ \A k \in Sent(i, "create_order") :
                /\ net[k].arg.type = "market"
                /\ net[k].arg.price = <<>>
                /\ net[k].arg.timeInForce = <<>>
          /\ ~stack[i].returned /\ Sent(i, "create_order") = {} =>
                depth = i /\ pc = "submit"
          /\ stack[i].returned =>
                IF executor.dry_run THEN stack[i].result.success
                ELSE Sent(i, "create_order") # {}

\* the quote fetch of a limit order failed and the order went out as a
\* market order that the exchange accepted
C16_Witness ==
    /\ pc = "done"
    /\ executor.order_type = "limit"
    /\ \E k \in Sent(1, "get_best_bid_ask") : net[k].resp = <<>>
    /\ \E k \in Sent(1, "create_order") : net[k].arg.type = "market" /\ net[k].resp = "ok"
    /\ result.success

\* C17: for a limit order with a usable quote the reference price is the
\* best ask for a buy and the best bid for a sell, and the limit price is
\* reference*(1 + slippage/100) for a buy and reference*(1 - slippage/100)
\* for a sell; so with positive slippage a buy is priced above the ask and
\* a sell below the bid, and with negative slippage a buy below the ask and
\* a sell above the bid.
C17_LimitPrice ==
    \A i \in Frames :
       \A k \in Sent(i, "get_best_bid_ask") :
          ~NoUsableQuote(i) =>
             LET quote == net[k].resp[1]
                 slippage == executor.slippage_pct
                 limit_price == stack[i].limit_price[1]
             IN /\ stack[i].side = "buy" =>
                      /\ limit_price * 100 = quote.best_ask * (100 + slippage)
                      /\ slippage > 0 => limit_price > quote.best_ask
                      /\ slippage < 0 => limit_price < quote.best_ask
                /\ stack[i].side = "sell" =>
                      /\ limit_price * 100 = quote.best_bid * (100 - slippage)
                      /\ slippage > 0 => limit_price < quote.best_bid
                      /\ slippage < 0 => limit_price > quote.best_bid

\* a buy with negative slippage was priced from a quote whose bid and ask
\* differ, and the order went out
C17_Witness ==
    /\ executor.slippage_pct < 0
    /\ \E i \in Frames :
          /\ stack[i].side = "buy"
          /\ \E k \in Sent(i, "get_best_bid_ask") :
                /\ net[k].resp # <<>>
                /\ net[k].resp[1].best_bid > 0
                /\ net[k].resp[1].best_bid < net[k].resp[1].best_ask
          /\ \E k \in Sent(i, "create_order") : net[k].arg.price # <<>>

\* C18: execute_rebalance called with metrics whose needs_rebalancing is
\* false returns success with action 'none' and does nothing else: no
\* place_order call, no network request, no order, no client id, no ledger
\* record.
C18_BalancedIsNoOp ==
    rebalance.called /\ ~rebalance.metrics.needs_rebalancing =>
       /\ pc = "done"
       /\ rebalance.returned
       /\ rebalance.result.success
       /\ rebalance.result.action = "none"
       /\ stack = <<>>
       /\ net = <<>>
       /\ orders = <<>>
       /\ minted = <<>>
       /\ ledger = <<>>

\* execute_rebalance came back from balanced metrics that carry a positive
\* deviation and a contract count within the order limits
C18_Witness ==
    /\ rebalance.returned
    /\ ~rebalance.metrics.needs_rebalancing
    /\ QPositive(rebalance.metrics.allocation_deviation)
    /\ ~OutOfRange(rebalance.metrics.contracts_to_adjust)
    /\ ~executor.dry_run

\* the place_order call that execute_rebalance made is a sell that is not
\* reduce-only, with the leverage execute_rebalance was given
OpensShort ==
    /\ stack[1].side = "sell"
    /\ ~stack[1].reduce_only
    /\ stack[1].leverage = rebalance.leverage

\* ... or a buy that is reduce-only
ClosesShort ==
    /\ stack[1].side = "buy"
    /\ stack[1].reduce_only

\* C19: with needs_rebalancing true, execute_rebalance dispatches by the
\* sign of the deviation: deviation > 0 opens short (a sell, not
\* reduce-only, with the given leverage), deviation < 0 closes short (a buy
\* with reduce-only set); either way the order is for exactly
\* contracts_to_adjust contracts of the given symbol, and so is every
\* order-create request of that call.
C19_DispatchBySign ==
    rebalance.called /\ rebalance.metrics.needs_rebalancing =>
       /\ stack # <<>>
       /\ rebalance.metrics.allocation_deviation.num > 0 => OpensShort
       /\ rebalance.metrics.allocation_deviation.num < 0 => ClosesShort
       /\ stack[1].contracts = rebalance.metrics.contracts_to_adjust
       /\ stack[1].symbol = rebalance.symbol
       /\ \A k \in Sent(1, "create_order") :
             /\ SameOrderFor(net[k].arg, 1, rebalance.metrics.contracts_to_adjust)
             /\ net[k].arg.symbol = rebalance.symbol
       /\ rebalance.returned =>
             /\ rebalance.result.action =
                   (IF stack[1].reduce_only THEN "close_short" ELSE "open_short")
             /\ rebalance.result.contracts = <<rebalance.metrics.contracts_to_adjust>>
             /\ rebalance.result.order = stack[1].result

\* a negative deviation led to a reduce-only buy of 3 contracts that the
\* exchange accepted, and execute_rebalance came back
C19_Witness ==
    /\ rebalance.returned
    /\ rebalance.metrics.needs_rebalancing
    /\ rebalance.metrics.allocation_deviation.num < 0
    /\ rebalance.metrics.contracts_to_adjust = 3
    /\ \E k \in Sent(1, "create_order") :
          /\ net[k].arg.side = "buy"
          /\ net[k].arg.reduceOnly
          /\ net[k].arg.size = 3
          /\ net[k].resp = "ok"

\* C20: whenever calculate_metrics is given an empty portfolio (total
\* portfolio value 0), both current allocations are 0 and needs_rebalancing
\* is false, for every target allocation and every threshold.
C20_ZeroPortfolioGuard ==
    metrics # <<>> /\ metrics[1].total_portfolio_usd.num = 0 =>
       /\ metrics[1].current_btc_allocation.num = 0
       /\ metrics[1].current_usd_allocation.num = 0
       /\ ~metrics[1].needs_rebalancing

(* ==================== properties of the calculator ===================== *)
\* two rationals of the same value
QEq(a, b) == Lowest(a) = Lowest(b)

\* the result of the call of calculate_metrics, once it was made
Calculated == metrics # <<>>

C22_StrictThreshold ==
    Calculated =>
        LET m == metrics[1]
            d == m.allocation_deviation
        IN /\ d.den > 0
           /\ QEq(QAdd(d, Q(snapshot.target_allocation, 1)),
                  m.current_btc_allocation)
           /\ m.needs_rebalancing <=>
                  Abs(d.num) > snapshot.rebalance_threshold * d.den
           /\ Abs(d.num) = snapshot.rebalance_threshold * d.den =>
                  ~m.needs_rebalancing

\* a deviation of exactly the threshold, not zero: no rebalancing
C22_Witness ==
    /\ Calculated
    /\ snapshot.rebalance_threshold > 0
    /\ Abs(metrics[1].allocation_deviation.num) =
           snapshot.rebalance_threshold * metrics[1].allocation_deviation.den
    /\ ~metrics[1].needs_rebalancing

\* target_short = total_portfolio_value * (100 - target_allocation) / 100
TargetShort(m) ==
    QMul(m.total_portfolio_usd, Q(100 - snapshot.target_allocation, 100))

\* |target_short - current_short|
ShortGap(m) == QAbs(QSub(TargetShort(m), m.current_short_usd))

InverseShorts(positions) ==
    { k \in 1 .. Len(positions) :
        positions[k].isInverse /\ positions[k].currentQty < 0 }

\* the sum of |quantity| over the positions at the indexes K
RECURSIVE SumOfSizes(_, _)
SumOfSizes(positions, K) ==
    IF K = {} THEN 0
    ELSE LET k == CHOOSE x \in K : TRUE
         IN Abs(positions[k].currentQty) + SumOfSizes(positions, K \ {k})

CallStep == pc = "calculate_metrics" /\ pc' = "calculated"

C26_BothSidesFallBack ==
    \A k \in 1 .. Len(net) :
       net[k].op = "get_best_bid_ask" /\ net[k].wire # <<>> =>
          LET t == net[k].wire[1]
              quote == net[k].resp[1]
          IN t.bid = 0 \/ t.ask = 0 =>
                quote.best_bid = t.price /\ quote.best_ask = t.price

\* the requests of a logged client call, as positions in net
RequestsOf(call) == (call.upto - call.sent + 1) .. call.upto

\* the calls logged of the two functions that fall back
FallbackCalls ==
    { i \in 1 .. Len(bot.log) :
        bot.log[i].fn \in {"get_futures_account", "get_positions"} }

\* the path of a function's variant: parameterless first, then with currency
VariantPath(fn, n) ==
    LET base == IF fn = "get_futures_account" THEN "/api/v1/account-overview"
                ELSE "/api/v1/positions"
    IN IF n = 1 THEN <<base>> ELSE <<base, "?currency=", "XBT">>

\* C27: a call of get_futures_account or get_positions sends at most one
\* request per endpoint variant, in the fixed order parameterless path then
\* currency-qualified path; a variant answered HTTP 400 or a non-success API
\* code is followed by the next variant; the data of the first successful
\* variant is returned and no later variant is tried; the call fails with
\* an empty result only when every variant failed, and the error it reports
\* is that of the last variant tried.
C27_EndpointFallback ==
    \A i \in FallbackCalls :
       LET call == bot.log[i]
           first == call.upto - call.sent
           final == net[call.upto]
       IN /\ call.sent \in 1 .. 2
          /\ \A n \in 1 .. call.sent :
                /\ net[first + n].op = call.fn
                /\ net[first + n].method = "GET"
                /\ net[first + n].path = VariantPath(call.fn, n)
                /\ n < call.sent => net[first + n].wire.kind # "ok"
          /\ net[first + 1].wire.kind \in {"400", "api_error"} => call.sent = 2
          /\ final.wire.kind = "ok" =>
                /\ call.error = <<>>
                /\ call.returned =
                      IF call.fn = "get_futures_account" THEN final.wire.data
                      ELSE SelectSeq(final.wire.data, LAMBDA pos : pos.isOpen)
          /\ final.wire.kind # "ok" =>
                /\ call.sent = 2
                /\ call.returned = <<>>
                /\ call.error =
                      <<IF final.wire.kind = "400"
                        THEN <<"400 Bad Request with ", "with currency=XBT">>
                        ELSE <<final.wire.msg>>>>

\* a call whose first variant was answered 400 and whose second variant was
\* answered a non-success code: two requests, nothing returned, the second
\* variant's message reported
C27_Witness ==
    \E i \in FallbackCalls :
       LET call == bot.log[i]
       IN /\ call.sent = 2
          /\ net[call.upto - 1].wire.kind = "400"
          /\ net[call.upto].wire.kind = "api_error"
          /\ call.returned = <<>>
          /\ call.error = <<<<"Invalid currency">>>>

\* a JSON value that is the number n
IsNumber(w, n) == w # <<>> /\ w[1].type \in {"int", "float"} /\ w[1].v = n

\* C28: get_position_mode maps the wire value 0 to ONE_WAY and 1 to
\* HEDGE_MODE and returns '' for any other or missing wire value and for a
\* failed request; set_position_mode sends 0 for ONE_WAY and 1 for
\* HEDGE_MODE and, asked for any other mode, returns False and sends no
\* request.
C28_PositionModeMapping ==
    /\ \A k \in 1 .. Len(net) :
          net[k].op = "get_position_mode" /\ net[k].wire # <<>> =>
             LET w == net[k].wire
             IN net[k].resp =
                   IF w.ok /\ IsNumber(w.positionMode, 0) THEN "ONE_WAY"
                   ELSE IF w.ok /\ IsNumber(w.positionMode, 1) THEN "HEDGE_MODE"
                   ELSE ""
    /\ \A i \in 1 .. Len(bot.log) :
          bot.log[i].fn = "set_position_mode" =>
             LET call == bot.log[i]
             IN IF call.arg \in {"ONE_WAY", "HEDGE_MODE"}
                THEN /\ call.sent = 1
                     /\ net[call.upto].op = "set_position_mode"
                     /\ net[call.upto].arg.positionMode =
                           (IF call.arg = "ONE_WAY" THEN 0 ELSE 1)
                ELSE call.sent = 0 /\ call.returned = FALSE

\* C29: every authenticated request, each variant of an endpoint fallback
\* and each order-create request included, carries the timestamp the clock
\* showed when its headers were built, never that of an earlier request,
\* and a signature over that timestamp with the method, the path and the
\* body that were sent.
C29_FreshTimestampAndSignature ==
    \A k \in 1 .. Len(net) :
       /\ net[k].headers.KC_API_TIMESTAMP = k
       /\ \A j \in 1 .. (k - 1) :
             net[j].headers.KC_API_TIMESTAMP # net[k].headers.KC_API_TIMESTAMP
       /\ net[k].headers.KC_API_SIGN =
             <<net[k].headers.KC_API_TIMESTAMP, net[k].method, net[k].path, net[k].body>>
       /\ net[k].op = "create_order" =>
             /\ net[k].method = "POST"
             /\ net[k].path = <<"/api/v1/orders">>
             /\ net[k].body = <<"json", net[k].arg>>
       /\ net[k].op = "get_futures_account" =>
             /\ net[k].method = "GET"
             /\ net[k].body = ""
             /\ net[k].path \in {<<"/api/v1/account-overview">>,
                                 <<"/api/v1/account-overview", "?currency=", "XBT">>}

\* an iteration in which the account was fetched by the second variant
\* after the first failed and an order was then created: three requests
\* with three timestamps, each signed with its own
C29_Witness ==
    \E i, j, k \in 1 .. Len(net) :
       /\ j = i + 1
       /\ j < k
       /\ net[i].op = "get_futures_account"
       /\ net[i].path = <<"/api/v1/account-overview">>
       /\ net[j].op = "get_futures_account"
       /\ net[j].path = <<"/api/v1/account-overview", "?currency=", "XBT">>
       /\ net[k].op = "create_order"
       /\ net[k].headers.KC_API_SIGN[1] = k
       /\ net[j].headers.KC_API_SIGN[1] = j

(* ======================== properties of the loop ======================= *)
\* a fetch of this iteration failed: the client gave up and reported an error
FailedRead ==
    \E i \in 1 .. Len(bot.log) :
       /\ bot.log[i].fn \in {"get_ticker_price", "get_futures_account", "get_positions"}
       /\ bot.log[i].error # <<>>

\* the executor was called in this iteration and returned a failure
FailedPlacement == stack # <<>> /\ result # NoResult /\ ~result.success

\* C30: in the main loop neither a failed price, account or positions fetch
\* nor a failed order placement stops the loop: nothing is raised, the
\* iteration ends and the next one starts after the fetch interval.
C30_LoopSurvivesFailures ==
    /\ pc # "stopped"
    /\ ~raised
    /\ pc = "sleep" /\ (FailedRead \/ FailedPlacement) =>
          bot.slept = <<bot.fetch_interval>>

\* the running lifecycle has not yet handed its final result to the loop
LifecycleActive == stack # <<>> /\ pc \notin {"done", "sleep", "stopped"}

FetchOps == {"get_ticker_price", "get_futures_account", "get_positions"}

\* a step of the main loop outside the executor: a fetch or the decision
LoopStep ==
    \/ Len(net') = Len(net) + 1 /\ net'[Len(net')].op \in FetchOps
    \/ calls' # calls /\ calls' # <<>>

\* C31: at most one order lifecycle is active at any time, and while it is
\* active (polling and resubmissions included) no new cycle starts: the
\* frames on the stack are the nested attempts of one lifecycle, each one
\* below the top waiting in its monitoring for the resubmission it made; no
\* fetch of the main loop and no second decision lies between the start of
\* place_order and the return of its final result.
C31_OneLifecycleAtATime ==
    /\ [](LifecycleActive =>
            /\ pc \notin FetchOps \cup {"calculate"}
            /\ Len(calls) = 1
            /\ \A i \in Frames :
                  i < depth => ~stack[i].returned /\ Sent(i, "cancel_order") # {}
            /\ \A k \in 1 .. Len(net) :
                  net[k].op \in FetchOps =>
                     /\ net[k].frame = 0
                     /\ \A j \in 1 .. Len(net) : net[j].frame > 0 => k < j)
    /\ [][LoopStep => stack = <<>> /\ (stack' = <<>> \/ pc = "calculate")]_vars
    /\ [][Len(stack') > Len(stack) =>
             \/ stack = <<>> /\ pc = "calculate"
             \/ pc = "cancel" /\ depth = Len(stack)]_vars

\* the monitoring of a resubmitted remainder is polling, after the first
\* order was polled, timed out and cancelled: the three fetches of the
\* iteration all lie before the first request of the lifecycle
C31_Witness ==
    /\ pc = "monitor"
    /\ depth = 2
    /\ Len(bot.log) = 3
    /\ Cardinality(Sent(1, "get_order_details")) >= 2
    /\ Sent(2, "get_order_details") # {}

(* ======================= properties of the ledger ====================== *)
\* the order-create requests the exchange accepted, in order: the n-th of
\* them made the order with id n
AcceptedCreates == { k \in 1 .. Len(net) : net[k].op = "create_order" /\ net[k].resp = "ok" }

CreateOf(order_id) ==
    CHOOSE k \in AcceptedCreates :
       Cardinality({ j \in AcceptedCreates : j <= k }) = order_id.id

\* C32: every ledger record has action OPEN_SHORT or CLOSE_SHORT
\* (OPEN_SHORT exactly for a sell that is not reduce-only), a status among
\* FILLED, PARTIAL, CANCELLED and TIMEOUT, an empty filled price, and an
\* empty limit price and an empty slippage exactly when its order was
\* submitted as a market order.
C32_LedgerRecordShape ==
    \A r \in 1 .. Len(ledger) :
       LET row == ledger[r]
           sent == net[CreateOf(row.order_id)].arg
       IN /\ row.order_id.tag = ""
          /\ row.order_id.id \in 1 .. Cardinality(AcceptedCreates)
          /\ row.action \in {"OPEN_SHORT", "CLOSE_SHORT"}
          /\ row.action = "OPEN_SHORT" <=> sent.side = "sell" /\ ~sent.reduceOnly
          /\ row.status \in {"FILLED", "PARTIAL", "CANCELLED", "TIMEOUT"}
          /\ row.filled_price = <<>>
          /\ row.limit_price = <<>> <=> sent.type = "market"
          /\ row.slippage = <<>> <=> sent.type = "market"
          /\ sent.type \in {"market", "limit"}

\* a limit order that found no quote went out as a market order and its
\* record has neither limit price nor slippage, after a record of a limit
\* order that has both
C32_Witness ==
    /\ executor.order_type = "limit"
    /\ \E r \in 1 .. Len(ledger) :
          /\ ledger[r].limit_price = <<>>
          /\ ledger[r].slippage = <<>>
          /\ ledger[r].action = "CLOSE_SHORT"
          /\ ledger[r].status = "FILLED"
    /\ \E r \in 1 .. Len(ledger) :
          /\ ledger[r].limit_price # <<>>
          /\ ledger[r].slippage # <<>>
          /\ ledger[r].status = "CANCELLED"

(* ==================== properties of the resubmission ================== *)
\* C33: every order-create request, the resubmitted remainder of a
\* timed-out GTC order included, has a size that is a positive integer
\* within [min_order_usd, max_order_usd] (it is the absolute contract count
\* of its attempt); a remainder outside that range is not submitted and the
\* lifecycle returns a failure result.
C33_EverySubmittedSizeInRange ==
    /\ \A k \in 1 .. Len(net) :
          net[k].op = "create_order" =>
             /\ net[k].arg.size \in Nat
             /\ net[k].arg.size > 0
             /\ net[k].arg.size >= executor.min_order_usd
             /\ net[k].arg.size <= executor.max_order_usd
             /\ net[k].frame \in Frames
             /\ net[k].arg.size = Abs(stack[net[k].frame].contracts)
    /\ \A i \in Frames :
          i > 1 /\ OutOfRange(stack[i].contracts) =>
             /\ Sent(i, "create_order") = {}
             /\ stack[i].returned => ~stack[i].result.success
             /\ pc = "done" =>
                   /\ ~result.success
                   /\ result.error \in {"Order size exceeds maximum",
                                        "Order size below minimum"}

\* an order for three contracts had two filled at its timeout; the
\* remainder of one is below the floor, was not sent, and the lifecycle
\* came back with the failure
C33_Witness ==
    /\ pc = "done"
    /\ Len(stack) = 2
    /\ Cardinality(Sent(1, "create_order")) = 1
    /\ stack[1].order_details.size = 3
    /\ stack[1].order_details.dealSize = 2
    /\ stack[2].contracts = 1
    /\ stack[2].contracts < executor.min_order_usd
    /\ Sent(2, "create_order") = {}
    /\ result = Fail("Order size below minimum")

\* the orders of the running lifecycle that rest on the exchange
Resting == { n \in 1 .. Len(orders) : orders[n].status = "open" }

\* C34: the remainder of a timed-out GTC order is resubmitted only if the
\* cancel of the original order succeeded, so that one lifecycle never has
\* two of its orders resting on the exchange at the same time.
C34_ResubmitOnlyAfterCancel ==
    /\ \A i \in Frames : i + 1 \in Frames => stack[i].cancel_success
    /\ Cardinality(Resting) <= 1

\* contracts filled on the exchange over the orders 1 .. n of the lifecycle
RECURSIVE TotalFilled(_)
TotalFilled(n) == IF n = 0 THEN 0 ELSE orders[n].dealSize + TotalFilled(n - 1)

\* C35: across all attempts of one lifecycle the contracts filled on the
\* exchange never exceed the contract count originally passed to
\* place_order, further fills of the original order between the read at
\* the timeout and the cancel included.
C35_TotalFillWithinRequest ==
    stack # <<>> => TotalFilled(Len(orders)) <= Abs(stack[1].contracts)

(* ======================== properties of a cycle ======================== *)
\* C36: a cycle of the main loop computes metrics and can submit an order
\* only if its price fetch, its account fetch and its positions fetch all
\* succeeded; in a cycle where one of them failed (a positions fetch that
\* failed and returned an empty list included) no order is submitted.
C36_OrderOnlyAfterThreeGoodFetches ==
    /\ calls # <<>> => ~FailedRead /\ Len(bot.log) = 3
    /\ FailedRead => stack = <<>> /\ \A k \in 1 .. Len(net) : net[k].op # "create_order"

(* ================== properties of the adjustment's sign ================ *)
\* the short exposure after the action execute_rebalance chooses from the
\* sign of the deviation was carried out in full
ShortAfter(m) ==
    IF Dispatch(m) = "open_short"
    THEN QAdd(m.current_short_usd, Q(m.contracts_to_adjust, 1))
    ELSE IF Dispatch(m) = "close_short"
    THEN QSub(m.current_short_usd, Q(m.contracts_to_adjust, 1))
    ELSE m.current_short_usd

\* a lies between b and c, the ends included
QBetween(a, b, c) ==
    \/ ~QGt(b, a) /\ ~QGt(a, c)
    \/ ~QGt(c, a) /\ ~QGt(a, b)

C38_OneRecordPerOrderId ==
    /\ \A a, b \in 1 .. Len(ledger) : a # b => ledger[a].order_id # ledger[b].order_id
    /\ \A i \in Frames :
          /\ stack[i].n_logged <= 1
          /\ stack[i].n_logged = Cardinality(RowsOf(stack[i].order_id))
    /\ \A r \in 1 .. Len(ledger) : ledger[r].order_id.id \in 1 .. Len(orders)

\* a second lifecycle after one that left a record: its first order timed
\* out unfilled and was cancelled, the resubmitted one was polled and found
\* filled; three records, three order ids
C38_Witness ==
    /\ Len(ledger) = 3
    /\ Len(stack) = 2
    /\ pc = "done"
    /\ ledger[1].order_id.id = 1
    /\ ledger[2].status = "CANCELLED"
    /\ ledger[2].order_id = stack[1].order_id
    /\ ledger[3].status = "FILLED"
    /\ ledger[3].order_id = stack[2].order_id
    /\ Cardinality(Sent(2, "get_order_details")) >= 1

(* ================= properties of the bot's own gates =================== *)
\* the metrics of this cycle are held back by TradingBot.execute_rebalance:
\* automatic rebalancing is off, or the adjustment is above max_order_usd
\* or below min_order_usd
HeldBack(m) ==
    \/ ~bot.auto_rebalance
    \/ QGt(QAbs(m.short_position_adjustment), Q(executor.max_order_usd, 1))
    \/ QGt(Q(executor.min_order_usd, 1), QAbs(m.short_position_adjustment))

ExecutorOps == {"get_position_mode", "set_position_mode", "get_best_bid_ask",
                "create_order", "get_order_details", "cancel_order"}

\* C39: with auto_rebalance disabled, or with |short_position_adjustment|
\* above max_order_usd or below min_order_usd, TradingBot.execute_rebalance
\* returns False without calling the executor: in such a cycle there is no
\* position-mode request, no quote fetch for pricing, no order-create
\* request and no ledger record, whatever the metrics are, and the loop
\* sleeps the fetch interval.
C39_BotGatesBeforeExecutor ==
    metrics # <<>> /\ HeldBack(metrics[1]) =>
        /\ stack = <<>>
        /\ \A k \in 1 .. Len(net) : net[k].op \notin ExecutorOps
        /\ ledger = <<>>
        /\ minted = <<>>
        /\ ~bot.executed
        /\ pc = "sleep"
        /\ bot.slept = <<bot.fetch_interval>>

\* automatic rebalancing is on and rebalancing is needed, but the
\* adjustment is above the ceiling: the cycle ends in the sleep with
\* nothing but its fetches sent
C39_Witness ==
    /\ metrics # <<>>
    /\ bot.auto_rebalance
    /\ ~executor.dry_run
    /\ metrics[1].needs_rebalancing
    /\ QGt(QAbs(metrics[1].short_position_adjustment), Q(executor.max_order_usd, 1))
    /\ pc = "sleep"
    /\ stack = <<>>
    /\ Len(net) >= 3

====
